---- MODULE Spec2Model ----
(***************************************************************************)
(* HanziFlow: the character search / ranking engine and the detail         *)
(* resolver of src/services/hanzi-data.ts, and the handlers of the page    *)
(* that call them (src/App.tsx, src/components/SearchBar.tsx).             *)
(*                                                                         *)
(* A JavaScript string is a sequence of UTF-16 code units (naturals), so   *)
(* that toLowerCase, the regular-expression classes, startsWith, split and *)
(* string concatenation are computed and not assumed.  A JavaScript object *)
(* (ZDICT_DATA, one dictionary entry) is the sequence of its own           *)
(* properties in insertion order, which is the order Object.entries and    *)
(* Object.keys enumerate.                                                  *)
(***************************************************************************)
EXTENDS Integers, Sequences, FiniteSets, TLC

VARIABLES
    ZDICT_DATA,     \* hanzi-data.ts:25  the dictionary snapshot
    ZDICT_LOADED,   \* hanzi-data.ts:26  the loaded flag
    MEANING_CACHE,  \* hanzi-data.ts:64  char -> {meaning, examples}
    lsMeaning,      \* localStorage[CACHE_KEY]: the data of the envelope, or NoItem
    cnchar,         \* the linguistic library: which table, which calls throw
    ret,            \* the last call of the exported API and what it returned
    ZDICT_MORE,     \* the number of keys of ZDICT_DATA beyond those it lists
    lsZdict,        \* localStorage[ZDICT_CACHE_KEY]
    now,            \* Date.now(), in days
    loads,          \* the calls of loadZdictData: where each one stands
    log,            \* what the calls of loadZdictData did (no code reads it)
    app,            \* App.tsx:9-13   the selection, its detail and the loads in flight
    speech,         \* App.tsx:14     playingText, the playbacks and their timers
    bar             \* SearchBar.tsx:10-12  query, lastSearchQuery and the debounce timer

\* the state of the components of the page
uiVars == <<app, speech, bar>>

vars == <<ZDICT_DATA, ZDICT_LOADED, MEANING_CACHE, lsMeaning, cnchar, ret,
          ZDICT_MORE, lsZdict, now, loads, log, app, speech, bar>>

\* what searchCharactersByPinyin and getCharacterDetails never touch
loadVars == <<ZDICT_MORE, lsZdict, now, loads, log, app, speech, bar>>

(***************************************************************************)
(* Strings                                                                 *)
(***************************************************************************)
\* code units: a 97  c 99  g 103  h 104  n 110   A 65  N 78   1 49 .. 5 53
\*   space 32  , 44  . 46  / 47  [ 91  ] 93  _ 95  \n 10
\*   a-macron 257  a-acute 225  a-caron 462  a-grave 224
\*   fullwidth comma 65292  fullwidth colon 65306  fullwidth semicolon 65307
\*   U+5B89 (an1) 23433  U+6848 (an4) 26696  U+6602 (ang2) 26114
\*   U+6C49 (han4) 27721  U+5382 (chang3 / an1) 21378

RECURSIVE Concat(_)
Concat(ss) == IF ss = <<>> THEN <<>> ELSE Head(ss) \o Concat(Tail(ss))

\* Array.prototype.join
RECURSIVE Join(_, _)
Join(ss, sep) ==
    IF ss = <<>> THEN <<>>
    ELSE IF Len(ss) = 1 THEN ss[1]
    ELSE ss[1] \o sep \o Join(Tail(ss), sep)

StartsWith(s, p) == Len(p) <= Len(s) /\ SubSeq(s, 1, Len(p)) = p

Includes(s, c) == \E i \in 1..Len(s) : s[i] = c

\* s.split(c)[0]: the part of s before the first c (all of s if there is none)
RECURSIVE SplitFirst(_, _)
SplitFirst(s, c) ==
    IF s = <<>> \/ Head(s) = c THEN <<>>
    ELSE <<Head(s)>> \o SplitFirst(Tail(s), c)

\* String.prototype.trim over the white space the model's keywords hold
RECURSIVE TrimLeft(_)
TrimLeft(s) == IF s # <<>> /\ Head(s) \in {32, 10} THEN TrimLeft(Tail(s)) ELSE s

lowerUnit(c) == IF c >= 65 /\ c <= 90 THEN c + 32 ELSE c

toLowerCase(s) == [i \in 1..Len(s) |-> lowerUnit(s[i])]

\* s.replace(/[1-5]/g, '')
RECURSIVE stripToneDigits(_)
stripToneDigits(s) ==
    IF s = <<>> THEN <<>>
    ELSE IF Head(s) >= 49 /\ Head(s) <= 53 THEN stripToneDigits(Tail(s))
    ELSE <<Head(s)>> \o stripToneDigits(Tail(s))

\* the six substitution classes of removeTone
toneBase(c) ==
    CASE c \in {257, 225, 462, 224} -> 97
      [] c \in {275, 233, 283, 232} -> 101
      [] c \in {299, 237, 464, 236} -> 105
      [] c \in {333, 243, 466, 242} -> 111
      [] c \in {363, 250, 468, 249} -> 117
      [] c \in {470, 472, 474, 476} -> 252
      [] OTHER -> c

removeTone(pinyin) ==
    LET low == toLowerCase(pinyin)
    IN  stripToneDigits([i \in 1..Len(low) |-> toneBase(low[i])])

\* /[\u4e00-\u9fa5]/ on one code unit
isHanziUnit(c) == c >= 19968 /\ c <= 40869

\* /[\u4e00-\u9fa5]/.test(s)
hasHanziTest(s) == \E i \in 1..Len(s) : isHanziUnit(s[i])

\* the match without the g flag: the first literal character only
matchHanzi_firstOnly(s) ==
    IF \E i \in 1..Len(s) : isHanziUnit(s[i])
    THEN <<<<s[CHOOSE i \in 1..Len(s) :
                 isHanziUnit(s[i]) /\ \A j \in 1..(i - 1) : ~isHanziUnit(s[j])]>>>>
    ELSE <<>>

\* s.match(/[\u4e00-\u9fa5]/g) || []  (each match is a one-unit string)
RECURSIVE matchHanzi(_)
matchHanzi(s) ==
    IF s = <<>> THEN <<>>
    ELSE IF isHanziUnit(Head(s)) THEN <<<<Head(s)>>>> \o matchHanzi(Tail(s))
    ELSE matchHanzi(Tail(s))

\* the test of lines 247, 411, 434-438: a one-unit string in the CJK range
validChar(char) == char # <<>> /\ Len(char) = 1 /\ hasHanziTest(char)

\* String.prototype.localeCompare as a sign (-1, 0, 1).  Over the strings
\* removeTone yields here (lower-case ASCII letters and "/") the collation
\* order is the order of the code units, a proper prefix first.
RECURSIVE localeCompare(_, _)
localeCompare(a, b) ==
    IF a = <<>> /\ b = <<>> THEN 0
    ELSE IF a = <<>> THEN -1
    ELSE IF b = <<>> THEN 1
    ELSE IF Head(a) < Head(b) THEN -1
    ELSE IF Head(a) > Head(b) THEN 1
    ELSE localeCompare(Tail(a), Tail(b))

(***************************************************************************)
(* The data the model draws from                                           *)
(***************************************************************************)
MaxDict == 2        \* entries of a dictionary snapshot

c_an1  == <<23433>>     \* U+5B89
c_an4  == <<26696>>     \* U+6848
c_ang  == <<26114>>     \* U+6602
c_han  == <<27721>>     \* U+6C49
c_poly == <<21378>>     \* U+5382, read chang3 or an1

p_an1   == <<257, 110>>
p_an4   == <<224, 110>>
p_ang2  == <<225, 110, 103>>
p_han4  == <<104, 224, 110>>
p_chang == <<99, 104, 462, 110, 103>>

PLACEHOLDER_MEANING == <<26242, 26080, 37322, 20041>>   \* "no definition yet"
PLACEHOLDER_BRIEF   == <<24120, 29992, 27721, 23383>>   \* "common character"

NULL == [null |-> TRUE]
NoItem == [item |-> FALSE]

\* null where an object (a sequence of properties) is expected
NullObject == <<NULL>>

\* the clock when the module is evaluated, in days
Today == 30

\* no call of loadZdictData has been made
Callers == {"initializeDatabaseExpansion", "expandMeaningCache"}
NoLoads == [c \in Callers |-> [pc |-> "idle"]]
NoLog == [installs |-> 0, overlapped |-> FALSE,
          last |-> [caller |-> "none", event |-> "none"]]

\* One property of ZDICT_DATA: a key and its pronunciation map, itself the
\* sequence of (pronunciation, definitions) in insertion order.
Prop(k, v) == [key |-> k, val |-> v]

EntryPool ==
    { Prop(c_an1,  << Prop(p_an1,  << <<100, 65292, 101>>, <<102>> >>) >>),
      Prop(c_an4,  << Prop(p_an4,  << <<103, 65306, 104>> >>) >>),
      Prop(c_ang,  << Prop(p_ang2, << <<105>> >>) >>),
      Prop(c_han,  << Prop(p_han4, << >>) >>),
      Prop(c_han,  << >>),
      Prop(c_poly, << Prop(p_chang, << <<106>>, <<107>> >>),
                      Prop(p_an1,   << <<108>> >>) >>),
      Prop(<<97, 98>>, << Prop(p_an1, << <<109>> >>) >>) }

\* the snapshots a fetch can deliver: objects of at most MaxDict properties
Snapshots ==
    { d \in UNION { [1..n -> EntryPool] : n \in 0..MaxDict } :
        \A i, j \in 1..Len(d) : i # j => d[i].key # d[j].key }

\* the meaning caches an earlier run can have saved: the empty
\* object or one property, its value a {meaning, examples} record
CachePool ==
    { Prop(c_han, [meaning |-> <<110, 44, 111>>, examples |-> <<>>]),
      Prop(c_an4, [meaning |-> <<112>>, examples |-> <<>>]) }

Caches == {<<>>} \cup { <<p>> : p \in CachePool }

Keywords ==
    { <<>>,                     \* ""
      <<32>>,                   \* " "
      <<97>>,                   \* "a"
      <<97, 110>>,              \* "an"
      <<65, 110>>,              \* "An"
      <<97, 110, 49>>,          \* "an1"
      <<257, 110>>,             \* "a-macron n"
      <<97, 110, 103>>,         \* "ang"
      <<104, 97, 110>>,         \* "han"
      <<99, 104, 97, 110, 103>>,\* "chang"
      c_han,                    \* one literal character
      c_han \o c_han,           \* the same character twice
      c_han \o c_an1,           \* two literal characters
      <<97>> \o c_an4            \* a pinyin letter and a literal character
    }

DetailInputs ==
    { <<>>, <<97>>, c_an1, c_an4, c_han, c_poly, c_han \o c_an1 }

(***************************************************************************)
(* The object lookups                                                      *)
(***************************************************************************)
HasKey(obj, k) == \E i \in 1..Len(obj) : obj[i].key = k

Get(obj, k) == obj[CHOOSE i \in 1..Len(obj) : obj[i].key = k].val

ObjectKeys(obj) == [i \in 1..Len(obj) |-> obj[i].key]

\* obj[k] = v: an own property keeps its place, a new one goes last
Put(obj, k, v) ==
    IF HasKey(obj, k)
    THEN [i \in 1..Len(obj) |-> IF obj[i].key = k THEN Prop(k, v) ELSE obj[i]]
    ELSE Append(obj, Prop(k, v))

(***************************************************************************)
(* The linguistic library (cnchar), an external collaborator.  A value it  *)
(* returns is tagged with its JavaScript type, because the code branches   *)
(* on Array.isArray and typeof.  cnchar.mode says whether the library      *)
(* answers with arrays or with strings (both are handled by the code);     *)
(* cnchar.throws names the calls that throw (a plugin that is not loaded). *)
(***************************************************************************)
Arr(v) == [kind |-> "arr", v |-> v]
Str(v) == [kind |-> "str", v |-> v]
Num(v) == [kind |-> "num", v |-> v]
Thrown == [kind |-> "throw"]

\* the readings the library knows, in the order it lists them
LibReadings(char) ==
    CASE char = c_an1  -> <<p_an1>>
      [] char = c_an4  -> <<p_an4>>
      [] char = c_ang  -> <<p_ang2>>
      [] char = c_han  -> <<p_han4>>
      [] char = c_poly -> <<p_chang, p_an1>>
      [] OTHER -> <<char>>

LibChars == <<c_an1, c_an4, c_ang, c_han, c_poly>>

\* cnchar.spell(char, 'poly', 'tone', 'low')
spell(char) ==
    IF "spell" \in cnchar.throws THEN Thrown
    ELSE IF cnchar.mode = "array" THEN Arr(LibReadings(char))
    ELSE IF Len(LibReadings(char)) = 1 THEN Str(LibReadings(char)[1])
    ELSE Str(<<40>> \o Join(LibReadings(char), <<124>>) \o <<41>>)   \* "(r1|r2)"

\* cnchar.spellToWord(pinyin): the characters one of whose readings is spelt
\* pinyin, as an array of characters or as one string of them
spellToWord(pinyin) ==
    LET hits == SelectSeq(LibChars,
                    LAMBDA c : \E i \in 1..Len(LibReadings(c)) :
                                   removeTone(LibReadings(c)[i]) = pinyin)
    IN  IF "spellToWord" \in cnchar.throws THEN Thrown
        ELSE IF cnchar.mode = "array" THEN Arr(hits)
        ELSE Str(Concat(hits))

\* cnchar.stroke(char)
stroke(char) ==
    IF "stroke" \in cnchar.throws THEN Thrown
    ELSE IF cnchar.mode = "array" THEN Arr(<<Num(6)>>)
    ELSE Num(6)

\* cnchar.radical(char)
radical(char) ==
    IF "radical" \in cnchar.throws THEN Thrown
    ELSE IF cnchar.mode = "array" THEN Arr(<<[radical |-> <<23424>>]>>)
    ELSE Str(<<23424>>)

\* cnchar.words(char) and cnchar.idiom(char)
words(char) ==
    IF "words" \in cnchar.throws THEN Thrown
    ELSE IF char = c_han THEN Arr(<<c_han \o c_an1, c_han \o c_an4>>)
    ELSE Arr(<<>>)

idiom(char) ==
    IF "words" \in cnchar.throws THEN Thrown
    ELSE IF char = c_han THEN Arr(<<c_han \o c_an1>>)
    ELSE Arr(<<>>)

\* frequency-data.ts getFrequencySort: a rank per character, a large
\* default for a character without a rank
getFrequencySort(char) ==
    CASE char = c_an1  -> 3
      [] char = c_an4  -> 2
      [] char = c_han  -> 1
      [] char = c_poly -> 3
      [] OTHER -> 9999

(***************************************************************************)
(* Meanings                                                                *)
(***************************************************************************)
Meaning(m) == [meaning |-> m, examples |-> <<>>]

\* one block of the polyphonic form: "[pinyin] def1;def2"
polyBlock(p) == <<91>> \o p.key \o <<93, 32>> \o Join(p.val, <<65307>>)

\* the entry's first pronunciation alone, whatever their number
getMeaningFromZdict_firstPronunciation(char) ==
    IF ~ZDICT_LOADED \/ ~HasKey(ZDICT_DATA, char) THEN NULL
    ELSE LET entry == Get(ZDICT_DATA, char)
         IN  IF Len(entry) = 0 THEN Meaning(PLACEHOLDER_MEANING)
             ELSE Meaning(IF Len(entry[1].val) > 0 THEN Join(entry[1].val, <<65307>>)
                          ELSE PLACEHOLDER_MEANING)

getMeaningFromZdict(char) ==
    IF ~ZDICT_LOADED \/ ~HasKey(ZDICT_DATA, char) THEN NULL
    ELSE LET entry == Get(ZDICT_DATA, char)
             pinyins == ObjectKeys(entry)
         IN  IF Len(pinyins) = 0 THEN Meaning(PLACEHOLDER_MEANING)
             ELSE IF Len(pinyins) = 1
               THEN LET defs == entry[1].val
                    IN  Meaning(IF Len(defs) > 0 THEN Join(defs, <<65307>>)
                                ELSE PLACEHOLDER_MEANING)
             ELSE Meaning(Join([i \in 1..Len(entry) |-> polyBlock(entry[i])],
                               <<10, 10>>))

\* a || b on strings: the empty string is falsy
OrElse(a, b) == IF a # <<>> THEN a ELSE b

\* lines 314-319 (and 361-365, 417-421): the brief of a library result
displayBriefOf(char) ==
    LET zdictResult == IF ZDICT_LOADED THEN getMeaningFromZdict(char) ELSE NULL
        zm == IF zdictResult = NULL THEN <<>> ELSE zdictResult.meaning
        cm == IF HasKey(MEANING_CACHE, char)
              THEN Get(MEANING_CACHE, char).meaning ELSE <<>>
        meaning == OrElse(zm, OrElse(cm, PLACEHOLDER_BRIEF))
        brief == OrElse(SplitFirst(SplitFirst(meaning, 65292), 44),
                        OrElse(meaning, PLACEHOLDER_BRIEF))
    IN  IF Includes(brief, 10) THEN SplitFirst(brief, 10) \o <<46, 46, 46>>
        ELSE brief

\* lines 260-261: the brief of a dictionary result
briefOfDefinitions(definitions) ==
    LET firstDef == IF Len(definitions) > 0 THEN definitions[1]
                    ELSE PLACEHOLDER_BRIEF
    IN  OrElse(SplitFirst(SplitFirst(firstDef, 65292), 65306), firstDef)

(***************************************************************************)
(* The dictionary scan                                                     *)
(***************************************************************************)
ZDICT_SCAN_CAP == 500
RESULT_CAP == 1000
RETRY_BELOW == 10

\* A SearchResult is {char, pinyin, brief}.  The model adds src, the
\* strategy that admitted it, which no code reads: "literal", "zdict",
\* "cnchar", "zdictRetry", "cncharRetry".
SearchResult(char, pinyin, brief, src) ==
    [char |-> char, pinyin |-> pinyin, brief |-> brief, src |-> src]

\* includes() where the code has startsWith()
zdictMatches_contains(char, pinyinMap, normalizedPrefix, src) ==
    LET contains(s) == \E k \in 0..Len(s) :
                           StartsWith(SubSeq(s, k + 1, Len(s)), normalizedPrefix)
        hits == SelectSeq(pinyinMap, LAMBDA p : contains(removeTone(p.key)))
    IN  [i \in 1..Len(hits) |->
            SearchResult(char, hits[i].key, briefOfDefinitions(hits[i].val), src)]

\* lines 253-271: the results one property of ZDICT_DATA contributes
zdictMatches(char, pinyinMap, normalizedPrefix, src) ==
    LET hits == SelectSeq(pinyinMap,
                    LAMBDA p : StartsWith(removeTone(p.key), normalizedPrefix))
    IN  [i \in 1..Len(hits) |->
            SearchResult(char, hits[i].key, briefOfDefinitions(hits[i].val), src)]

\* lines 243-274: the loop over Object.entries(ZDICT_DATA) from entry i to
\* entry last, left early when the count reaches the cap (line 273)
RECURSIVE zdictScanTo(_, _, _, _, _)
zdictScanTo(i, last, results, normalizedPrefix, src) ==
    IF i > last THEN results
    ELSE IF ~validChar(ZDICT_DATA[i].key)
      THEN zdictScanTo(i + 1, last, results, normalizedPrefix, src)
    ELSE LET more == results \o zdictMatches(ZDICT_DATA[i].key, ZDICT_DATA[i].val,
                                             normalizedPrefix, src)
         IN  IF Len(more) >= ZDICT_SCAN_CAP THEN more
             ELSE zdictScanTo(i + 1, last, more, normalizedPrefix, src)

\* entries the loop takes in one stretch: the loop over a snapshot of
\* hundreds of entries is evaluated stretch by stretch, which bounds the
\* depth of the recursion and changes nothing of what it computes
ScanStretch == 32

\* lines 243-274: the whole loop
RECURSIVE zdictScan(_, _, _, _)
zdictScan(i, results, normalizedPrefix, src) ==
    IF i > Len(ZDICT_DATA) THEN results
    ELSE LET last == IF i + ScanStretch - 1 < Len(ZDICT_DATA)
                     THEN i + ScanStretch - 1 ELSE Len(ZDICT_DATA)
             more == zdictScanTo(i, last, results, normalizedPrefix, src)
         IN  IF Len(more) >= ZDICT_SCAN_CAP THEN more
             ELSE zdictScan(last + 1, more, normalizedPrefix, src)

searchFromZdict(pinyinPrefix, src) ==
    IF ~ZDICT_LOADED THEN <<>>
    ELSE zdictScan(1, <<>>, toLowerCase(pinyinPrefix), src)

(***************************************************************************)
(* searchCharactersByPinyin                                                *)
(***************************************************************************)
\* lines 286-288: results, foundKeys, foundChars.  The model adds thrown
\* (an exception left the loop that was filling them) and calls (the
\* collaborators invoked so far), which no code reads.
EmptyAcc ==
    [results |-> <<>>, foundKeys |-> {}, foundChars |-> {},
     thrown |-> FALSE, calls |-> {}]

Called(acc, names) == [acc EXCEPT !.calls = @ \cup names]

resultKey(result) == result.char \o <<95>> \o result.pinyin

\* addResult without the foundKeys test
addResult_noKeyCheck(acc, result) ==
    [acc EXCEPT !.foundKeys = @ \cup {resultKey(result)},
                !.foundChars = @ \cup {result.char},
                !.results = Append(@, result)]

addResult(acc, result) ==
    IF resultKey(result) \in acc.foundKeys THEN acc
    ELSE [acc EXCEPT !.foundKeys = @ \cup {resultKey(result)},
                     !.foundChars = @ \cup {result.char},
                     !.results = Append(@, result)]

\* Array.isArray(r) ? r.join('/') : (r || fallback)
pinyinStrOf(pinyinResult, fallback) ==
    IF pinyinResult.kind = "arr" THEN Join(pinyinResult.v, <<47>>)
    ELSE OrElse(pinyinResult.v, fallback)

\* Array.isArray(r) ? r : (typeof r === 'string' ? [r] : [])
charactersOf(spellResult) ==
    IF spellResult.kind = "arr" THEN spellResult.v
    ELSE IF spellResult.kind = "str" THEN <<spellResult.v>>
    ELSE <<>>

\* lines 311-325, 358-371, 415-427: the result built for one character
cncharResult(char, fallback, src) ==
    SearchResult(char, pinyinStrOf(spell(char), fallback), displayBriefOf(char), src)

\* MEANING_CACHE[char] (lines 314, 361, 417, 210, 587) is a TypeError when
\* loadCachedMeanings returned the null data of a stored envelope
cacheIsNull == MEANING_CACHE = NullObject

\* lines 308-326: one result per literal character, no try around spell
\* nor around the cache lookup
RECURSIVE literalLoop(_, _)
literalLoop(chars, acc) ==
    IF chars = <<>> THEN acc
    ELSE IF Head(chars) \in acc.foundChars THEN literalLoop(Tail(chars), acc)
    ELSE IF spell(Head(chars)).kind = "throw"
      THEN [Called(acc, {"spell"}) EXCEPT !.thrown = TRUE]
    ELSE IF cacheIsNull
      THEN [Called(acc, {"spell", "MEANING_CACHE"}) EXCEPT !.thrown = TRUE]
    ELSE literalLoop(Tail(chars),
            Called(addResult(acc, cncharResult(Head(chars), <<>>, "literal")),
                   {"spell", "MEANING_CACHE"}))

\* the merge in which a dictionary hit replaces the entries its character has
RECURSIVE addZdictResults_override(_, _)
addZdictResults_override(zdictResults, acc) ==
    IF zdictResults = <<>> THEN acc
    ELSE IF Len(acc.results) >= RESULT_CAP THEN acc
    ELSE addZdictResults_override(Tail(zdictResults),
            addResult([acc EXCEPT !.results =
                          SelectSeq(@, LAMBDA r : r.char # Head(zdictResults).char)],
                      Head(zdictResults)))

\* lines 340-343 and 385-399
RECURSIVE addZdictResults(_, _)
addZdictResults(zdictResults, acc) ==
    IF zdictResults = <<>> THEN acc
    ELSE IF Len(acc.results) >= RESULT_CAP THEN acc
    ELSE addZdictResults(Tail(zdictResults), addResult(acc, Head(zdictResults)))

\* the loop without the foundChars test of lines 355 and 412
RECURSIVE cncharLoop_noFoundChars(_, _, _, _, _)
cncharLoop_noFoundChars(characters, acc, validate, fallback, src) ==
    IF characters = <<>> THEN acc
    ELSE IF validate /\ ~validChar(Head(characters))
      THEN cncharLoop_noFoundChars(Tail(characters), acc, validate, fallback, src)
    ELSE IF Len(acc.results) >= RESULT_CAP THEN acc
    ELSE IF spell(Head(characters)).kind = "throw" THEN Called(acc, {"spell"})
    ELSE IF MEANING_CACHE = NullObject THEN Called(acc, {"spell", "MEANING_CACHE"})
    ELSE cncharLoop_noFoundChars(Tail(characters),
            Called(addResult(acc, cncharResult(Head(characters), fallback, src)),
                   {"spell", "MEANING_CACHE"}),
            validate, fallback, src)

\* lines 354-372 (validate = FALSE) and 410-428 (validate = TRUE); a throw
\* of spell ends the loop, the enclosing try keeps what was added
RECURSIVE cncharLoop(_, _, _, _, _)
cncharLoop(characters, acc, validate, fallback, src) ==
    IF characters = <<>> THEN acc
    ELSE IF validate /\ ~validChar(Head(characters))
      THEN cncharLoop(Tail(characters), acc, validate, fallback, src)
    ELSE IF Head(characters) \in acc.foundChars
      THEN cncharLoop(Tail(characters), acc, validate, fallback, src)
    ELSE IF Len(acc.results) >= RESULT_CAP THEN acc
    ELSE IF spell(Head(characters)).kind = "throw" THEN Called(acc, {"spell"})
    ELSE IF cacheIsNull THEN Called(acc, {"spell", "MEANING_CACHE"})
    ELSE cncharLoop(Tail(characters),
            Called(addResult(acc, cncharResult(Head(characters), fallback, src)),
                   {"spell", "MEANING_CACHE"}),
            validate, fallback, src)

\* line 333: keyword.toLowerCase().replace(/[1-5]/g, '')
normalizePinyin(keyword) == stripToneDigits(toLowerCase(keyword))

\* lines 336-344
strategy1(normalizedPinyin, acc) ==
    IF ZDICT_LOADED
    THEN addZdictResults(searchFromZdict(normalizedPinyin, "zdict"),
                         Called(acc, {"searchFromZdict"}))
    ELSE acc

\* lines 347-376
strategy2(normalizedPinyin, acc) ==
    IF Len(acc.results) >= RESULT_CAP THEN acc
    ELSE IF spellToWord(normalizedPinyin).kind = "throw"
      THEN Called(acc, {"spellToWord"})
    ELSE cncharLoop(charactersOf(spellToWord(normalizedPinyin)),
                    Called(acc, {"spellToWord"}), FALSE, <<>>, "cnchar")

\* line 380
shorterPrefixOf(normalizedPinyin) ==
    SubSeq(normalizedPinyin, 1, Len(normalizedPinyin) - 1)

\* lines 383-400
retryZdict(shorterPrefix, acc) ==
    IF ZDICT_LOADED
    THEN addZdictResults(searchFromZdict(shorterPrefix, "zdictRetry"),
                         Called(acc, {"searchFromZdict"}))
    ELSE acc

\* lines 403-430
retryCnchar(shorterPrefix, acc) ==
    IF Len(acc.results) >= RESULT_CAP THEN acc
    ELSE IF spellToWord(shorterPrefix).kind = "throw"
      THEN Called(acc, {"spellToWord"})
    ELSE cncharLoop(charactersOf(spellToWord(shorterPrefix)),
                    Called(acc, {"spellToWord"}), TRUE, shorterPrefix, "cncharRetry")

\* the retry that shortens the prefix again while the results stay few
RECURSIVE strategy3_repeated(_, _)
strategy3_repeated(normalizedPinyin, acc) ==
    IF Len(acc.results) < RETRY_BELOW /\ Len(normalizedPinyin) > 1
    THEN strategy3_repeated(shorterPrefixOf(normalizedPinyin),
             retryCnchar(shorterPrefixOf(normalizedPinyin),
                         retryZdict(shorterPrefixOf(normalizedPinyin), acc)))
    ELSE acc

\* lines 379-431
strategy3(normalizedPinyin, acc) ==
    IF Len(acc.results) < RETRY_BELOW /\ Len(normalizedPinyin) > 1
    THEN retryCnchar(shorterPrefixOf(normalizedPinyin),
                     retryZdict(shorterPrefixOf(normalizedPinyin), acc))
    ELSE acc

\* lines 443-446
getNormPinyin(p) == removeTone(p)

\* the comparator without its second key
compareResults_noFrequency(a, b) ==
    localeCompare(getNormPinyin(a.pinyin), getNormPinyin(b.pinyin))

\* lines 441-463: the comparator, as a number whose sign decides
compareResults(a, b) ==
    IF getNormPinyin(a.pinyin) # getNormPinyin(b.pinyin)
    THEN localeCompare(getNormPinyin(a.pinyin), getNormPinyin(b.pinyin))
    ELSE getFrequencySort(a.char) - getFrequencySort(b.char)

\* Array.prototype.sort is stable: x goes before the first element it is
\* strictly smaller than
RECURSIVE insertSorted(_, _)
insertSorted(x, sorted) ==
    IF sorted = <<>> THEN <<x>>
    ELSE IF compareResults(x, Head(sorted)) < 0 THEN <<x>> \o sorted
    ELSE <<Head(sorted)>> \o insertSorted(x, Tail(sorted))

RECURSIVE sortAll(_, _)
sortAll(todo, sorted) ==
    IF todo = <<>> THEN sorted
    ELSE sortAll(Tail(todo), insertSorted(Head(todo), sorted))

\* the list returned as the strategies filled it
sortResults_none(results) == results

\* line 441: [...validResults].sort(comparator)
sortResults(results) == sortAll(results, <<>>)

\* lines 434-438
validResults(results) == SelectSeq(results, LAMBDA r : validChar(r.char))

Returned(v, calls) == [status |-> "ok", out |-> v, calls |-> calls]
Rejected == [status |-> "throw"]

\* the test without trim()
isBlank_noTrim(keyword) == keyword = <<>>

\* line 282: !keyword || keyword.trim().length === 0
isBlank(keyword) == keyword = <<>> \/ TrimLeft(keyword) = <<>>

\* lines 304-326
literalResults(keyword) ==
    IF hasHanziTest(keyword) THEN literalLoop(matchHanzi(keyword), EmptyAcc)
    ELSE EmptyAcc

\* the strategies with the library asked before the dictionary is scanned
pinyinStrategies_libraryFirst(normalizedPinyin, acc) ==
    strategy3(normalizedPinyin,
              strategy1(normalizedPinyin, strategy2(normalizedPinyin, acc)))

\* lines 333-431
pinyinStrategies(normalizedPinyin, acc) ==
    strategy3(normalizedPinyin,
              strategy2(normalizedPinyin, strategy1(normalizedPinyin, acc)))

\* the search without the return of line 329
searchCharactersByPinyin_noEarlyReturn(keyword) ==
    IF isBlank(keyword) THEN Returned(<<>>, {})
    ELSE IF literalResults(keyword).thrown THEN Rejected
    ELSE LET acc == pinyinStrategies(normalizePinyin(keyword), literalResults(keyword))
         IN  Returned(sortResults(validResults(acc.results)), acc.calls)

\* the search that hands the keyword as it came to strategy 2
searchCharactersByPinyin_rawToLibrary(keyword) ==
    IF isBlank(keyword) THEN Returned(<<>>, {})
    ELSE IF literalResults(keyword).thrown THEN Rejected
    ELSE IF Len(literalResults(keyword).results) > 0
      THEN Returned(literalResults(keyword).results, literalResults(keyword).calls)
    ELSE LET acc == strategy3(normalizePinyin(keyword),
                       strategy2(keyword,
                           strategy1(normalizePinyin(keyword), literalResults(keyword))))
         IN  Returned(sortResults(validResults(acc.results)), acc.calls)

\* lines 281-466
searchCharactersByPinyin(keyword) ==
    IF isBlank(keyword) THEN Returned(<<>>, {})
    ELSE IF literalResults(keyword).thrown THEN Rejected
    ELSE IF Len(literalResults(keyword).results) > 0
      THEN Returned(literalResults(keyword).results, literalResults(keyword).calls)
    ELSE LET acc == pinyinStrategies(normalizePinyin(keyword), literalResults(keyword))
         IN  Returned(sortResults(validResults(acc.results)), acc.calls)

(***************************************************************************)
(* The meaning cache and getCharacterDetails                               *)
(***************************************************************************)
CACHE_VERSION == "3.1"

\* line 22: 30 * 24 * 60 * 60 * 1000 ms, in days
CACHE_EXPIRY == 30

\* a stored item JSON.parse rejects
Unparsable == [item |-> TRUE, json |-> FALSE]

\* a stored item that parses to {data, version, timestamp}
Envelope(data, version, timestamp) ==
    [item |-> TRUE, json |-> TRUE, data |-> data, version |-> version,
     timestamp |-> timestamp]

\* lines 48-61: the envelope saveCachedMeanings stores
savedEnvelope(meanings) == Envelope(meanings, CACHE_VERSION, now)

\* the test of the version alone
isCurrent_versionOnly(stored) == stored.version = CACHE_VERSION

\* line 32 and line 85: version === CACHE_VERSION && Date.now() - timestamp < CACHE_EXPIRY
isCurrent(stored) ==
    stored.version = CACHE_VERSION /\ now - stored.timestamp < CACHE_EXPIRY

\* lines 29-45: the data of a current envelope as it is, {} otherwise; the
\* stored item is left in place on every path
loadCachedMeanings(stored) ==
    IF ~stored.item THEN <<>>
    ELSE IF ~stored.json THEN <<>>
    ELSE IF isCurrent(stored) THEN stored.data
    ELSE <<>>

\* the dictionary or the placeholder, the cache never read
getCharacterMeaning_noCache(char) ==
    IF ZDICT_LOADED /\ getMeaningFromZdict(char) # NULL THEN getMeaningFromZdict(char)
    ELSE Meaning(PLACEHOLDER_MEANING)

\* the cache looked up before the dictionary
getCharacterMeaning_cacheFirst(char) ==
    IF HasKey(MEANING_CACHE, char) THEN Get(MEANING_CACHE, char)
    ELSE IF ZDICT_LOADED /\ getMeaningFromZdict(char) # NULL
      THEN getMeaningFromZdict(char)
    ELSE Meaning(PLACEHOLDER_MEANING)

\* lines 197-216: what the call returns
getCharacterMeaning(char) ==
    IF ZDICT_LOADED /\ getMeaningFromZdict(char) # NULL THEN getMeaningFromZdict(char)
    ELSE IF HasKey(MEANING_CACHE, char) THEN Get(MEANING_CACHE, char)
    ELSE Meaning(PLACEHOLDER_MEANING)

\* lines 199-207: the cache after the call
cacheAfterMeaning(char) ==
    IF ZDICT_LOADED /\ getMeaningFromZdict(char) # NULL
    THEN Put(MEANING_CACHE, char, getMeaningFromZdict(char))
    ELSE MEANING_CACHE

\* lines 203-204: whether the call saves the cache
savesCache(char) == ZDICT_LOADED /\ getMeaningFromZdict(char) # NULL

\* Array.from(new Set(xs))
RECURSIVE dedupe(_, _)
dedupe(xs, seen) ==
    IF xs = <<>> THEN <<>>
    ELSE IF Head(xs) \in seen THEN dedupe(Tail(xs), seen)
    ELSE <<Head(xs)>> \o dedupe(Tail(xs), seen \cup {Head(xs)})

\* lines 647-660
getCncharExamples(char) ==
    IF words(char).kind = "throw" \/ idiom(char).kind = "throw" THEN <<>>
    ELSE dedupe((IF words(char).kind = "arr" THEN words(char).v ELSE <<>>)
                \o (IF idiom(char).kind = "arr" THEN idiom(char).v ELSE <<>>), {})

EXAMPLES_SHOWN == 10

\* xs.slice(0, n)
Slice(xs, n) == SubSeq(xs, 1, IF Len(xs) < n THEN Len(xs) ELSE n)

\* line 477
pinyinOf(pinyinResult) ==
    IF pinyinResult.kind = "arr"
    THEN (IF Len(pinyinResult.v) > 1 THEN Arr(pinyinResult.v)
          ELSE Str(pinyinResult.v[1]))
    ELSE Str(pinyinResult.v)

\* lines 480-483
strokesOf(strokeResult) ==
    IF strokeResult.kind = "num" THEN strokeResult.v
    ELSE IF strokeResult.kind = "arr" THEN strokeResult.v[1].v
    ELSE 0

\* lines 486-503
radicalOf(radicalInfo) ==
    IF radicalInfo.kind = "throw" THEN <<>>
    ELSE IF radicalInfo.kind = "arr"
      THEN (IF Len(radicalInfo.v) > 0 THEN radicalInfo.v[1].radical ELSE <<>>)
    ELSE radicalInfo.v

\* lines 519-526
safeDefault(char) ==
    [character |-> char, pinyin |-> Str(<<>>), meaning |-> PLACEHOLDER_MEANING,
     radical |-> <<>>, strokes |-> 0, examples |-> <<>>]

\* lines 474-476, 480, 506: the calls whose throw reaches the outer catch
\* (getCharacterMeaning reads or writes MEANING_CACHE[char] on every path)
detailsThrows(char) ==
    spell(char).kind = "throw" \/ stroke(char).kind = "throw" \/ cacheIsNull

\* the radical lookup outside its own try: its throw reaches the outer catch
getCharacterDetails_radicalUnguarded(char) ==
    IF Len(char) # 1 THEN NULL
    ELSE IF detailsThrows(char) \/ radical(char).kind = "throw" THEN safeDefault(char)
    ELSE [character |-> char,
          pinyin |-> pinyinOf(spell(char)),
          meaning |-> getCharacterMeaning(char).meaning,
          radical |-> radicalOf(radical(char)),
          strokes |-> strokesOf(stroke(char)),
          examples |-> Slice(IF Len(getCharacterMeaning(char).examples) > 0
                             THEN getCharacterMeaning(char).examples
                             ELSE getCncharExamples(char), EXAMPLES_SHOWN)]

\* lines 469-528: the value the promise resolves with
getCharacterDetails(char) ==
    IF Len(char) # 1 THEN NULL
    ELSE IF detailsThrows(char) THEN safeDefault(char)
    ELSE [character |-> char,
          pinyin |-> pinyinOf(spell(char)),
          meaning |-> getCharacterMeaning(char).meaning,
          radical |-> radicalOf(radical(char)),
          strokes |-> strokesOf(stroke(char)),
          examples |-> Slice(IF Len(getCharacterMeaning(char).examples) > 0
                             THEN getCharacterMeaning(char).examples
                             ELSE getCncharExamples(char), EXAMPLES_SHOWN)]

\* whether the call reaches getCharacterMeaning (line 506)
reachesMeaning(char) == Len(char) = 1 /\ ~detailsThrows(char)

(***************************************************************************)
(* getRandomInitialResults                                                 *)
(***************************************************************************)
\* pinyins of COMMON_PINYINS (lines 663-686) that getRandomPinyin can draw
RandomPinyins ==
    { <<97, 110>>, <<104, 97, 110>>, <<99, 104, 97, 110, 103>> }

\* line 700
INITIAL_RESULTS == 12

\* lines 701-705 (U+6C34 and U+96E8 are listed twice)
commonChars ==
    << <<23398>>, <<20064>>, <<27721>>, <<23383>>, <<26149>>, <<22799>>,
       <<31179>>, <<20908>>, <<23665>>, <<27700>>, <<20113>>, <<38632>>,
       <<22825>>, <<22320>>, <<19996>>, <<35199>>, <<21335>>, <<21271>>,
       <<37329>>, <<26408>>, <<27700>>, <<28779>>, <<22303>>, <<26085>>,
       <<26376>>, <<26143>>, <<33457>>, <<40479>>, <<40060>>, <<34411>>,
       <<39118>>, <<38647>>, <<30005>>, <<38632>>, <<38634>>, <<38684>> >>

Rotate(xs, k) == [i \in 1..Len(xs) |-> xs[((i + k - 1) % Len(xs)) + 1]]
Reverse(xs) == [i \in 1..Len(xs) |-> xs[Len(xs) + 1 - i]]

\* line 708: orders the random comparator can leave the list in -- the
\* list as written, the list from its 10th element on (both U+6C34 among
\* the first twelve), and the list backwards
Shuffles == { commonChars, Rotate(commonChars, 9), Reverse(commonChars) }

\* the loop without seenChars
RECURSIVE backfill_noSeenChars(_, _, _)
backfill_noSeenChars(shuffled, results, seenChars) ==
    IF shuffled = <<>> \/ Len(results) >= INITIAL_RESULTS
    THEN [results |-> results, thrown |-> FALSE]
    ELSE IF spell(Head(shuffled)).kind = "throw"
      THEN [results |-> results, thrown |-> TRUE]
    ELSE backfill_noSeenChars(Tail(shuffled),
            Append(results,
                   SearchResult(Head(shuffled),
                                pinyinStrOf(spell(Head(shuffled)), <<>>),
                                PLACEHOLDER_BRIEF, "common")),
            seenChars)

\* lines 711-722: no try around spell
RECURSIVE backfill(_, _, _)
backfill(shuffled, results, seenChars) ==
    IF shuffled = <<>> \/ Len(results) >= INITIAL_RESULTS
    THEN [results |-> results, thrown |-> FALSE]
    ELSE IF Head(shuffled) \in seenChars
      THEN backfill(Tail(shuffled), results, seenChars)
    ELSE IF spell(Head(shuffled)).kind = "throw"
      THEN [results |-> results, thrown |-> TRUE]
    ELSE backfill(Tail(shuffled),
            Append(results,
                   SearchResult(Head(shuffled),
                                pinyinStrOf(spell(Head(shuffled)), <<>>),
                                PLACEHOLDER_BRIEF, "common")),
            seenChars \cup {Head(shuffled)})

\* lines 694-726, for the pinyin getRandomPinyin drew and the order the
\* shuffle left
getRandomInitialResults(pinyin, shuffled) ==
    LET found == searchCharactersByPinyin(pinyin)
    IN  IF found.status = "throw" THEN Rejected
        ELSE IF Len(found.out) >= INITIAL_RESULTS THEN found
        ELSE LET filled == backfill(shuffled, found.out,
                                    { found.out[i].char : i \in 1..Len(found.out) })
             IN  IF filled.thrown THEN Rejected
                 ELSE Returned(filled.results, found.calls \cup {"spell"})

(***************************************************************************)
(* loadZdictData and expandMeaningCache                                    *)
(***************************************************************************)
\* A dictionary payload (the JSON the server sends, the data of the stored
\* envelope): the properties the model lists and the number of further
\* keys, which no keyword of the model matches.
Payload(data, more) == [data |-> data, more |-> more]

\* lines 88 and 131
MIN_KEYS == 100

\* lines 87 and 131: data && typeof data === 'object' ? Object.keys(data).length : 0
keyCount(payload) == Len(payload.data) + payload.more

\* the test without the threshold: any object passes
isValidPayload_anyObject(payload) == keyCount(payload) >= 0

\* lines 88 and 131
isValidPayload(payload) == keyCount(payload) > MIN_KEYS

\* what zdict-data.json can hold when it is fetched
FullPayload ==
    Payload(<< Prop(c_an1, << Prop(p_an1, << <<100, 65292, 101>>, <<102>> >>) >>),
               Prop(c_han, << Prop(p_han4, << <<113>> >>) >>) >>, MIN_KEYS)
OtherFullPayload ==
    Payload(<< Prop(c_an1, << Prop(p_an1, << <<114>> >>) >>) >>, MIN_KEYS)
SmallPayload ==
    Payload(<< Prop(c_an4, << Prop(p_an4, << <<103, 65306, 104>> >>) >>) >>, 0)
BoundaryPayload == Payload(<<>>, MIN_KEYS)

ServerPayloads == {FullPayload, OtherFullPayload, SmallPayload, BoundaryPayload}

\* what an earlier run can have stored
CachedPayload ==
    Payload(<< Prop(c_ang, << Prop(p_ang2, << <<105>> >>) >>) >>, MIN_KEYS)
StalePayload ==
    Payload(<< Prop(c_poly, << Prop(p_chang, << <<106>>, <<107>> >>),
                               Prop(p_an1,   << <<108>> >>) >>) >>, MIN_KEYS)

\* lines 109-119
possiblePaths == 3

\* the call is at its await of fetch(possiblePaths[path])
Fetching(path) == [pc |-> "fetch", path |-> path]
Done == [pc |-> "done"]

InFlight(caller) == loads[caller].pc = "fetch"

\* lines 89-90 and 127-128
Install(payload) ==
    /\ ZDICT_DATA' = payload.data
    /\ ZDICT_MORE' = payload.more
    /\ ZDICT_LOADED' = TRUE

Logged(caller, event, installed) ==
    [installs |-> log.installs + (IF installed THEN 1 ELSE 0),
     overlapped |-> log.overlapped \/ \E other \in Callers \ {caller} : InFlight(other),
     last |-> [caller |-> caller, event |-> event]]

\* the call without the test of line 77
LoadStart_noFlagTest(caller) ==
    IF lsZdict.item /\ lsZdict.json /\ isCurrent(lsZdict) /\ isValidPayload(lsZdict.data)
    THEN /\ Install(lsZdict.data)
         /\ loads' = [loads EXCEPT ![caller] = Done]
         /\ log' = Logged(caller, "restored", TRUE)
         /\ UNCHANGED lsZdict
    ELSE /\ loads' = [loads EXCEPT ![caller] = Fetching(1)]
         /\ log' = Logged(caller, "miss", FALSE)
         /\ UNCHANGED <<ZDICT_DATA, ZDICT_MORE, ZDICT_LOADED, lsZdict>>

\* lines 76-119: loadZdictData from its call to its first await or return
LoadStart(caller) ==
    IF ZDICT_LOADED
    THEN /\ loads' = [loads EXCEPT ![caller] = Done]
         /\ log' = Logged(caller, "returned", FALSE)
         /\ UNCHANGED <<ZDICT_DATA, ZDICT_MORE, ZDICT_LOADED, lsZdict>>
    ELSE IF ~lsZdict.item
    THEN /\ loads' = [loads EXCEPT ![caller] = Fetching(1)]
         /\ log' = Logged(caller, "miss", FALSE)
         /\ UNCHANGED <<ZDICT_DATA, ZDICT_MORE, ZDICT_LOADED, lsZdict>>
    ELSE IF ~lsZdict.json
    THEN /\ loads' = [loads EXCEPT ![caller] = Fetching(1)]
         /\ log' = Logged(caller, "cleared", FALSE)
         /\ lsZdict' = NoItem
         /\ UNCHANGED <<ZDICT_DATA, ZDICT_MORE, ZDICT_LOADED>>
    ELSE IF ~isCurrent(lsZdict)
    THEN /\ loads' = [loads EXCEPT ![caller] = Fetching(1)]
         /\ log' = Logged(caller, "stale", FALSE)
         /\ UNCHANGED <<ZDICT_DATA, ZDICT_MORE, ZDICT_LOADED, lsZdict>>
    ELSE IF isValidPayload(lsZdict.data)
    THEN /\ Install(lsZdict.data)
         /\ loads' = [loads EXCEPT ![caller] = Done]
         /\ log' = Logged(caller, "restored", TRUE)
         /\ UNCHANGED lsZdict
    ELSE /\ loads' = [loads EXCEPT ![caller] = Fetching(1)]
         /\ log' = Logged(caller, "cleared", FALSE)
         /\ lsZdict' = NoItem
         /\ UNCHANGED <<ZDICT_DATA, ZDICT_MORE, ZDICT_LOADED>>

\* lines 586-594, one round of the loop over the accumulated cache
expandStep(char, st) ==
    IF HasKey(st.cache, char) THEN st
    ELSE IF ZDICT_LOADED /\ getMeaningFromZdict(char) # NULL
      THEN [cache |-> Put(st.cache, char, getMeaningFromZdict(char)),
            count |-> st.count
                      + (IF getMeaningFromZdict(char).meaning # PLACEHOLDER_MEANING
                         THEN 1 ELSE 0),
            saved |-> TRUE]
    ELSE st

RECURSIVE expandLoop(_, _)
expandLoop(characters, st) ==
    IF characters = <<>> THEN st
    ELSE expandLoop(Tail(characters), expandStep(Head(characters), st))

\* lines 586-601 once the load has returned: the loop, the save, the count
Expanded(characters) ==
    expandLoop(characters, [cache |-> MEANING_CACHE, count |-> 0, saved |-> FALSE])

ExpandFinish(characters) ==
    IF cacheIsNull /\ characters # <<>>
    THEN /\ ret' = [op |-> "expand", arg |-> characters, res |-> Rejected]
         /\ UNCHANGED <<MEANING_CACHE, lsMeaning>>
    ELSE /\ ret' = [op |-> "expand", arg |-> characters,
                    res |-> [status |-> "ok", out |-> Expanded(characters).count]]
         /\ MEANING_CACHE' = Expanded(characters).cache
         /\ lsMeaning' = IF Expanded(characters).saved
                         THEN savedEnvelope(Expanded(characters).cache)
                         ELSE lsMeaning

(***************************************************************************)
(* The components of the page, as React constructs them                    *)
(***************************************************************************)
\* App.tsx:9-14, 44 (part_000:8-13): the first render.  details and searches
\* are the calls of getCharacterDetails and of searchCharactersByPinyin the
\* handlers have made and whose promises have not settled.
AppMounted ==
    [ results |-> <<>>, loading |-> FALSE, selectedChar |-> c_han,
      detail |-> NULL, detailRef |-> NULL, loadingDetail |-> FALSE,
      details |-> <<>>, searches |-> 0, init |-> "none" ]

\* App.tsx:14: nothing is played (playingText is null or a string).  plays lists the playbacks handleSpeak has
\* started, timers the setTimeout callbacks that have not run, oldest first.
SpeechMounted(source) ==
    [ source |-> source, playingText |-> NULL, plays |-> <<>>, timers |-> <<>> ]

\* SearchBar.tsx:10-12 and the first run of the effect of lines 14-24, which
\* returns at line 16 on the empty query: no timer, no cleanup
BarMounted ==
    [ query |-> <<>>, lastSearchQuery |-> <<>>, timers |-> {}, cleanup |-> NULL,
      clock |-> 0, changedAt |-> 0, sent |-> NULL ]

Mounted ==
    /\ app = AppMounted
    /\ speech = SpeechMounted("App.tsx")
    /\ bar = BarMounted

(***************************************************************************)
(* The state machine                                                       *)
(***************************************************************************)
Faults == {"spell", "stroke", "radical", "words", "spellToWord"}

\* The module has been evaluated (MEANING_CACHE restored from localStorage,
\* line 64) and loadZdictData has either not installed a snapshot or has
\* installed one (lines 127-128).
InitWith(throwSets) ==
    /\ now = Today
    /\ Mounted
    /\ \E d \in Snapshots : \E loaded \in BOOLEAN :
          /\ ZDICT_LOADED = loaded
          /\ ZDICT_DATA = IF loaded THEN d ELSE <<>>
    /\ \E c \in Caches :
          /\ lsMeaning = IF c = <<>> THEN NoItem ELSE savedEnvelope(c)
          /\ MEANING_CACHE = loadCachedMeanings(lsMeaning)
    /\ \E m \in {"array", "string"} : \E t \in throwSets :
          cnchar = [mode |-> m, throws |-> t]
    /\ ret = [op |-> "none"]
    /\ ZDICT_MORE = 0
    /\ lsZdict = NoItem
    /\ loads = NoLoads
    /\ log = NoLog

Init == InitWith({{}})

InitFault == InitWith({{}} \cup { {f} : f \in Faults })

\* a search that remembers the keyword in the meaning cache
Search_writesCache(keyword) ==
    /\ ret.op = "none"
    /\ ret' = [op |-> "search", arg |-> keyword, res |-> searchCharactersByPinyin(keyword)]
    /\ MEANING_CACHE' = IF cacheIsNull THEN MEANING_CACHE
                        ELSE Put(MEANING_CACHE, keyword, Meaning(PLACEHOLDER_MEANING))
    /\ UNCHANGED <<ZDICT_DATA, ZDICT_LOADED, lsMeaning, cnchar>>
    /\ UNCHANGED loadVars

\* a caller awaits one call of the exported API at a time: ret holds the
\* call and its result until the caller has taken it (Return)
Search(keyword) ==
    /\ ret.op = "none"
    /\ ret' = [op |-> "search", arg |-> keyword, res |-> searchCharactersByPinyin(keyword)]
    /\ UNCHANGED <<ZDICT_DATA, ZDICT_LOADED, MEANING_CACHE, lsMeaning, cnchar>>
    /\ UNCHANGED loadVars

Details(char) ==
    /\ ret.op = "none"
    /\ ret' = [op |-> "details", arg |-> char, res |-> getCharacterDetails(char)]
    /\ MEANING_CACHE' = IF reachesMeaning(char) THEN cacheAfterMeaning(char)
                        ELSE MEANING_CACHE
    /\ lsMeaning' = IF reachesMeaning(char) /\ savesCache(char)
                    THEN savedEnvelope(cacheAfterMeaning(char))
                    ELSE lsMeaning
    /\ UNCHANGED <<ZDICT_DATA, ZDICT_LOADED, cnchar>>
    /\ UNCHANGED loadVars

Random(pinyin, shuffled) ==
    /\ ret.op = "none"
    /\ ret' = [op |-> "random", arg |-> pinyin, shuffled |-> shuffled,
               res |-> getRandomInitialResults(pinyin, shuffled)]
    /\ UNCHANGED <<ZDICT_DATA, ZDICT_LOADED, MEANING_CACHE, lsMeaning, cnchar>>
    /\ UNCHANGED loadVars

Return ==
    /\ ret.op \notin {"none", "expanding"}
    /\ ret' = [op |-> "none"]
    /\ UNCHANGED <<ZDICT_DATA, ZDICT_LOADED, MEANING_CACHE, lsMeaning, cnchar>>
    /\ UNCHANGED loadVars

Next ==
    \/ \E keyword \in Keywords : Search(keyword)
    \/ \E char \in DetailInputs : Details(char)
    \/ \E pinyin \in RandomPinyins : \E shuffled \in Shuffles : Random(pinyin, shuffled)
    \/ Return

Spec == Init /\ [][Next]_vars

SpecFault == InitFault /\ [][Next]_vars

(***************************************************************************)
(* The module from its evaluation on: the load of the snapshot, the        *)
(* expansion of the cache, the clock                                       *)
(***************************************************************************)
MaxNow == 31        \* the clock stops here

\* what localStorage can hold under CACHE_KEY when the module is evaluated
StoredMeanings ==
    { NoItem,
      Unparsable,
      Envelope(NullObject, CACHE_VERSION, Today),
      Envelope(<< Prop(c_han, [meaning |-> <<110, 44, 111>>, examples |-> <<>>]) >>,
               CACHE_VERSION, Today - 1),
      Envelope(<< Prop(c_an1, [meaning |-> <<112>>, examples |-> <<>>]) >>,
               "3.0", Today) }

\* what localStorage can hold under ZDICT_CACHE_KEY when the module is evaluated
StoredZdicts ==
    { NoItem,
      Unparsable,
      Envelope(CachedPayload, CACHE_VERSION, Today),
      Envelope(CachedPayload, CACHE_VERSION, Today - CACHE_EXPIRY + 1),
      Envelope(StalePayload, CACHE_VERSION, Today - CACHE_EXPIRY),
      Envelope(StalePayload, "3.0", Today),
      Envelope(SmallPayload, CACHE_VERSION, Today) }

\* lines 21-64: the module has been evaluated, nothing has been called
InitLoad ==
    /\ now = Today
    /\ Mounted
    /\ ZDICT_DATA = <<>>
    /\ ZDICT_MORE = 0
    /\ ZDICT_LOADED = FALSE
    /\ lsMeaning \in StoredMeanings
    /\ MEANING_CACHE = loadCachedMeanings(lsMeaning)
    /\ lsZdict \in StoredZdicts
    /\ \E m \in {"array", "string"} : cnchar = [mode |-> m, throws |-> {}]
    /\ ret = [op |-> "none"]
    /\ loads = NoLoads
    /\ log = NoLog

\* lines 728-736, 605-608: the page's load event calls
\* initializeDatabaseExpansion, which calls loadZdictData, once
Initialize ==
    /\ loads["initializeDatabaseExpansion"].pc = "idle"
    /\ LoadStart("initializeDatabaseExpansion")
    /\ UNCHANGED <<MEANING_CACHE, lsMeaning, cnchar, ret, now>>
    /\ UNCHANGED uiVars

\* what the await of fetch and of response.json() can deliver
Responses == {[ok |-> FALSE]} \cup { [ok |-> TRUE, payload |-> p] : p \in ServerPayloads }

\* lines 122-159: the call resumes from its await
FetchResponds(caller, response) ==
    /\ InFlight(caller)
    /\ IF response.ok
       THEN /\ Install(response.payload)
            /\ lsZdict' = IF isValidPayload(response.payload)
                           THEN Envelope(response.payload, CACHE_VERSION, now)
                           ELSE lsZdict
            /\ loads' = [loads EXCEPT ![caller] = Done]
            /\ log' = Logged(caller, "fetched", TRUE)
       ELSE /\ loads' = [loads EXCEPT ![caller] =
                            IF loads[caller].path < possiblePaths
                            THEN Fetching(loads[caller].path + 1) ELSE Done]
            /\ log' = Logged(caller, "failed", FALSE)
            /\ UNCHANGED <<ZDICT_DATA, ZDICT_MORE, ZDICT_LOADED, lsZdict>>
    /\ UNCHANGED <<MEANING_CACHE, lsMeaning, cnchar, ret, now>>
    /\ UNCHANGED uiVars

\* lines 578-584: expandMeaningCache to its await of loadZdictData, or to
\* its end when the snapshot is loaded
ExpandCall(characters) ==
    /\ ret.op = "none"
    /\ ~InFlight("expandMeaningCache")
    /\ IF ZDICT_LOADED
       THEN /\ ExpandFinish(characters)
            /\ UNCHANGED <<ZDICT_DATA, ZDICT_MORE, ZDICT_LOADED, lsZdict, loads, log>>
       ELSE /\ LoadStart("expandMeaningCache")
            /\ ret' = [op |-> "expanding", arg |-> characters]
            /\ UNCHANGED <<MEANING_CACHE, lsMeaning>>
    /\ UNCHANGED <<cnchar, now>>
    /\ UNCHANGED uiVars

\* lines 586-601: loadZdictData has returned
ExpandResume ==
    /\ ret.op = "expanding"
    /\ loads["expandMeaningCache"].pc = "done"
    /\ ExpandFinish(ret.arg)
    /\ UNCHANGED <<ZDICT_DATA, ZDICT_MORE, ZDICT_LOADED, lsZdict, loads, log, cnchar, now>>
    /\ UNCHANGED uiVars

Tick ==
    /\ now < MaxNow
    /\ now' = now + 1
    /\ UNCHANGED <<ZDICT_DATA, ZDICT_LOADED, MEANING_CACHE, lsMeaning, cnchar, ret,
                   ZDICT_MORE, lsZdict, loads, log>>
    /\ UNCHANGED uiVars

LoadKeywords == { <<97, 110>>, c_han, <<97, 110, 103>> }
LoadDetailInputs == { c_han, c_an1 }
ExpandInputs == { <<c_han, c_an1>>, <<c_an4>> }

NextLoad ==
    \/ Initialize
    \/ \E caller \in Callers : \E response \in Responses : FetchResponds(caller, response)
    \/ \E characters \in ExpandInputs : ExpandCall(characters)
    \/ ExpandResume
    \/ Tick
    \/ \E keyword \in LoadKeywords : Search(keyword)
    \/ \E char \in LoadDetailInputs : Details(char)
    \/ Return

SpecLoad == InitLoad /\ [][NextLoad]_vars

(***************************************************************************)
(* The merge of the strategies: snapshots in which a character has several *)
(* pronunciations with a common prefix, and in which the dictionary and    *)
(* the library list different pronunciations of a character                *)
(***************************************************************************)
p_an2 == <<225, 110>>
p_ai4 == <<224, 105>>

MergePool ==
    { Prop(c_an1,  << Prop(p_an1,  << <<100>> >>) >>),
      \* two pronunciations, "ang" and "an": the retry of "ang" finds the second
      Prop(c_ang,  << Prop(p_ang2, << <<105>> >>), Prop(p_an2, << <<115>> >>) >>),
      \* the dictionary's pronunciation "ai" is not the library's "an"
      Prop(c_an4,  << Prop(p_ai4,  << <<116>> >>) >>),
      Prop(c_poly, << Prop(p_chang, << <<106>> >>), Prop(p_an1, << <<108>> >>) >>) }

MergeSnapshots ==
    { d \in UNION { [1..n -> MergePool] : n \in 0..MaxDict } :
        \A i, j \in 1..Len(d) : i # j => d[i].key # d[j].key }

\* n dictionary entries, each a character of its own read "an"
Filler(n) == [i \in 1..n |-> Prop(<<19968 + i>>, << Prop(p_an1, << >>) >>)]

\* snapshots with almost as many entries under "an" as the retry's
\* threshold (strategy 2 adds at least one entry to them when the library
\* answers "an"), followed by an entry only the prefix "a" matches
MergeFilled ==
    { Filler(n) \o << Prop(c_an4, << Prop(p_ai4, << <<116>> >>) >>) >> :
          n \in {RETRY_BELOW - 2, RETRY_BELOW - 1} }

MergeKeywords ==
    { <<97>>, <<97, 110>>, <<65, 110, 49>>, <<97, 110, 103>>,
      <<99, 104, 97, 110, 103>>, <<99, 104>> }

\* the module has been evaluated and loadZdictData has installed a snapshot
\* or has not
InitMerge ==
    /\ now = Today
    /\ Mounted
    /\ \E d \in MergeSnapshots \cup MergeFilled : \E loaded \in BOOLEAN :
          /\ ZDICT_LOADED = loaded
          /\ ZDICT_DATA = IF loaded THEN d ELSE <<>>
    /\ \E c \in Caches :
          /\ lsMeaning = IF c = <<>> THEN NoItem ELSE savedEnvelope(c)
          /\ MEANING_CACHE = loadCachedMeanings(lsMeaning)
    /\ \E m \in {"array", "string"} : cnchar = [mode |-> m, throws |-> {}]
    /\ ret = [op |-> "none"]
    /\ ZDICT_MORE = 0
    /\ lsZdict = NoItem
    /\ loads = NoLoads
    /\ log = NoLog

NextMerge ==
    \/ \E keyword \in MergeKeywords : Search(keyword)
    \/ Return

SpecMerge == InitMerge /\ [][NextMerge]_vars

(***************************************************************************)
(* The dictionary scan at its cap: snapshots with about ZDICT_SCAN_CAP     *)
(* entries under one prefix                                                *)
(***************************************************************************)
\* what follows the filler entries: nothing, a character with one
\* pronunciation, a character with two pronunciations under the same prefix
ScanTails ==
    { << >>,
      << Prop(c_an1, << Prop(p_an1, << <<100>> >>) >> ) >>,
      << Prop(c_ang, << Prop(p_ang2, << <<105>> >>), Prop(p_an2, << <<115>> >>) >>) >>,
      << Prop(c_ang, << Prop(p_ang2, << <<105>> >>), Prop(p_an2, << <<115>> >>) >>),
         Prop(c_an1, << Prop(p_an1, << <<100>> >>) >> ) >> }

ScanSnapshots ==
    { Filler(n) \o tail :
          n \in {ZDICT_SCAN_CAP - 2, ZDICT_SCAN_CAP - 1, ZDICT_SCAN_CAP},
          tail \in ScanTails }

ScanPrefixes == { <<97>>, <<97, 110>>, <<65, 110>>, <<97, 110, 103>>, <<98>> }

InitScan ==
    /\ now = Today
    /\ Mounted
    /\ ZDICT_LOADED = TRUE
    /\ ZDICT_DATA \in ScanSnapshots
    /\ \E c \in Caches :
          /\ lsMeaning = IF c = <<>> THEN NoItem ELSE savedEnvelope(c)
          /\ MEANING_CACHE = loadCachedMeanings(lsMeaning)
    /\ \E m \in {"array", "string"} : cnchar = [mode |-> m, throws |-> {}]
    /\ ret = [op |-> "none"]
    /\ ZDICT_MORE = 0
    /\ lsZdict = NoItem
    /\ loads = NoLoads
    /\ log = NoLog

\* lines 338 and 384: one invocation of searchFromZdict
Scan(pinyinPrefix) ==
    /\ ret.op = "none"
    /\ ret' = [op |-> "scan", arg |-> pinyinPrefix,
               res |-> Returned(searchFromZdict(pinyinPrefix, "zdict"), {"searchFromZdict"})]
    /\ UNCHANGED <<ZDICT_DATA, ZDICT_LOADED, MEANING_CACHE, lsMeaning, cnchar>>
    /\ UNCHANGED loadVars

NextScan ==
    \/ \E pinyinPrefix \in ScanPrefixes : Scan(pinyinPrefix)
    \/ Return

SpecScan == InitScan /\ [][NextScan]_vars

(***************************************************************************)
(* App: the selection and its detail (App.tsx:20-58, 74-84)                *)
(***************************************************************************)
MaxInFlight == 2    \* promises of one kind that have not settled

\* the characters the result list can hold
AppChars == { c_han, c_an1, c_an4 }

\* what searchCharactersByPinyin and getRandomInitialResults can resolve to
SearchAnswers == { <<>>, <<c_han>>, <<c_an1, c_an4>>, <<c_an4, c_an1>> }

\* hanzi-data.ts:509-515, 520-527: the record getCharacterDetails resolves to
\* for a character; of its fields the page compares character only
HanziInfo(char) == [ character |-> char ]

\* App.tsx:20-37: the updater of setSelectedChar up to the call of
\* getCharacterDetails, whose promise joins the calls in flight
handleSelectChar(a, char) ==
    IF a.selectedChar = char /\ a.detailRef # NULL
    THEN a
    ELSE [a EXCEPT !.selectedChar = char, !.loadingDetail = TRUE,
                   !.details = Append(@, char)]

\* App.tsx:49-57 and 78-81: the continuation after the await of a result list
resultsArrive(a, data) ==
    [ (IF Len(data) > 0 THEN handleSelectChar(a, data[1]) ELSE a)
      EXCEPT !.results = data, !.loading = FALSE ]

Without(s, i) == [ j \in 1..(Len(s) - 1) |-> IF j < i THEN s[j] ELSE s[j + 1] ]

AppOnly == UNCHANGED <<ZDICT_DATA, ZDICT_LOADED, MEANING_CACHE, lsMeaning, cnchar, ret,
                       ZDICT_MORE, lsZdict, now, loads, log, speech, bar>>

\* App.tsx:74-77: the effect of the first render, to its await
Mount ==
    /\ app.init = "none"
    /\ app' = [app EXCEPT !.loading = TRUE, !.init = "loading"]
    /\ AppOnly

\* App.tsx:78-81: getRandomInitialResults has resolved
InitSettles(data) ==
    /\ app.init = "loading"
    /\ Len(app.details) < MaxInFlight
    /\ app' = [resultsArrive(app, data) EXCEPT !.init = "done"]
    /\ AppOnly

\* App.tsx:135: a click on a character of the result list
SelectChar(char) ==
    /\ \E i \in 1..Len(app.results) : app.results[i] = char
    /\ Len(app.details) < MaxInFlight
    /\ app' = handleSelectChar(app, char)
    /\ AppOnly

\* App.tsx:29-35: the promise of a getCharacterDetails call resolves; the
\* calls in flight settle in any order
DetailSettles(i) ==
    /\ i \in 1..Len(app.details)
    /\ app' = [app EXCEPT !.detail = HanziInfo(app.details[i]),
                          !.detailRef = HanziInfo(app.details[i]),
                          !.loadingDetail = FALSE,
                          !.details = Without(@, i)]
    /\ AppOnly

\* App.tsx:46-48: handleSearch to its await
HandleSearch ==
    /\ app.init # "none"
    /\ app.searches < MaxInFlight
    /\ app' = [app EXCEPT !.loading = TRUE, !.searches = @ + 1]
    /\ AppOnly

\* App.tsx:49-57: searchCharactersByPinyin has resolved
SearchSettles(data) ==
    /\ app.searches > 0
    /\ Len(app.details) < MaxInFlight
    /\ app' = [resultsArrive(app, data) EXCEPT !.searches = @ - 1]
    /\ AppOnly

NextApp ==
    \/ Mount
    \/ \E data \in SearchAnswers : InitSettles(data)
    \/ \E char \in AppChars : SelectChar(char)
    \/ \E i \in 1..MaxInFlight : DetailSettles(i)
    \/ HandleSearch
    \/ \E data \in SearchAnswers : SearchSettles(data)

\* the page is mounted; the services are as the module's evaluation leaves
\* them, no snapshot installed and nothing cached
InitApp ==
    /\ now = Today
    /\ Mounted
    /\ ZDICT_LOADED = FALSE
    /\ ZDICT_DATA = <<>>
    /\ lsMeaning = NoItem
    /\ MEANING_CACHE = loadCachedMeanings(NoItem)
    /\ cnchar = [mode |-> "array", throws |-> {}]
    /\ ret = [op |-> "none"]
    /\ ZDICT_MORE = 0
    /\ lsZdict = NoItem
    /\ loads = NoLoads
    /\ log = NoLog

SpecApp == InitApp /\ [][NextApp]_vars

(***************************************************************************)
(* App: the speech playback (App.tsx:60-72, part_000:40-65)                *)
(***************************************************************************)
MaxPlays == 3       \* playbacks handleSpeak starts in one run

\* detail.character and an example word (App.tsx:179, 184, 204)
SpeakTexts == { c_han, <<27721, 23383>> }

\* the two handlers the repository holds
SpeechSources == { "App.tsx", "part_000" }

Playback(text, pc) == [ text |-> text, pc |-> pc, failed |-> FALSE ]

\* App.tsx:60-63, part_000:40-53: handleSpeak to its first await.  part_000
\* awaits ctx.resume() between the test of playingText and setPlayingText
\* when the audio context is suspended.
handleSpeak(s, text, suspended) ==
    IF s.playingText # NULL
    THEN s
    ELSE IF s.source = "part_000" /\ suspended
    THEN [s EXCEPT !.plays = Append(@, Playback(text, "resume"))]
    ELSE [s EXCEPT !.playingText = Str(text),
                   !.plays = Append(@, Playback(text, "speak"))]

SpeechOnly == UNCHANGED <<ZDICT_DATA, ZDICT_LOADED, MEANING_CACHE, lsMeaning, cnchar, ret,
                          ZDICT_MORE, lsZdict, now, loads, log, app, bar>>

\* App.tsx:179, 184, 204: a click on the character, its button or an example
HandleSpeak(text, suspended) ==
    /\ Len(speech.plays) < MaxPlays
    /\ speech' = handleSpeak(speech, text, suspended)
    /\ SpeechOnly

\* part_000:46-53: ctx.resume() has settled
ResumeSettles(i) ==
    /\ i \in DOMAIN speech.plays
    /\ speech.plays[i].pc = "resume"
    /\ speech' = [speech EXCEPT !.playingText = Str(speech.plays[i].text),
                                !.plays[i].pc = "speak"]
    /\ SpeechOnly

\* App.tsx:64-71, part_000:54-64: the promise of speakText settles
\* (hanzi-data.ts:531-569: resolved by its timer or by onend, rejected where
\* speech synthesis is missing or on onerror).  App.tsx sets the timer of the
\* reset when it resolves and resets at once when it rejects; part_000 sets
\* the timer in finally, after the reset of its catch too.
SpeakSettles(i, ok) ==
    /\ i \in DOMAIN speech.plays
    /\ speech.plays[i].pc = "speak"
    /\ speech' =
         IF ok
         THEN [speech EXCEPT !.plays[i].pc = "timer", !.timers = Append(@, i)]
         ELSE IF speech.source = "part_000"
         THEN [speech EXCEPT !.playingText = NULL,
                             !.plays[i].pc = "timer", !.plays[i].failed = TRUE,
                             !.timers = Append(@, i)]
         ELSE [speech EXCEPT !.playingText = NULL,
                             !.plays[i].pc = "over", !.plays[i].failed = TRUE]
    /\ SpeechOnly

\* App.tsx:67, part_000:63: the callback of the oldest timer runs
TimerFires ==
    /\ speech.timers # <<>>
    /\ speech' = [speech EXCEPT !.playingText = NULL,
                                !.plays[Head(speech.timers)].pc = "over",
                                !.timers = Tail(@)]
    /\ SpeechOnly

InitSpeech ==
    /\ now = Today
    /\ app = AppMounted
    /\ bar = BarMounted
    /\ \E source \in SpeechSources : speech = SpeechMounted(source)
    /\ ZDICT_LOADED = FALSE
    /\ ZDICT_DATA = <<>>
    /\ lsMeaning = NoItem
    /\ MEANING_CACHE = loadCachedMeanings(NoItem)
    /\ cnchar = [mode |-> "array", throws |-> {}]
    /\ ret = [op |-> "none"]
    /\ ZDICT_MORE = 0
    /\ lsZdict = NoItem
    /\ loads = NoLoads
    /\ log = NoLog

NextSpeech ==
    \/ \E text \in SpeakTexts : \E suspended \in BOOLEAN : HandleSpeak(text, suspended)
    \/ \E i \in 1..MaxPlays : ResumeSettles(i)
    \/ \E i \in 1..MaxPlays : \E ok \in BOOLEAN : SpeakSettles(i, ok)
    \/ TimerFires

SpecSpeech == InitSpeech /\ [][NextSpeech]_vars

(***************************************************************************)
(* SearchBar: the debounced query (SearchBar.tsx:10-31)                    *)
(***************************************************************************)
DEBOUNCE_MS == 150  \* SearchBar.tsx:21
MaxQuery == 2       \* code units of the text in the input
StepMs == 75        \* the clock advances by this much
MaxClock == 300     \* the clock stops here

\* what the input can hold: "a", "A" and the space, up to MaxQuery of them
Queries == UNION { [1..n -> {97, 65, 32}] : n \in 0..MaxQuery }

RECURSIVE TrimRight(_)
TrimRight(s) ==
    IF s # <<>> /\ s[Len(s)] \in {32, 10} THEN TrimRight(SubSeq(s, 1, Len(s) - 1)) ELSE s

\* String.prototype.trim
trim(s) == TrimRight(TrimLeft(s))

\* SearchBar.tsx:15, 29
trimmedQuery(query) == toLowerCase(trim(query))

\* an effect that returns no cleanup, or whose cleanup clears nothing
cleanedUp_nothing(b) == b.timers

\* SearchBar.tsx:23: the cleanup the last run of the effect returned runs
\* before the next run; clearTimeout of a timer that has fired does nothing
cleanedUp(b) ==
    IF b.cleanup = NULL THEN b.timers ELSE b.timers \ { b.cleanup.timer }

\* SearchBar.tsx:14-24: the render with the new query and the run of the
\* effect that follows it
setQuery(b, query) ==
    LET q == trimmedQuery(query)
        timer == [ q |-> q, due |-> b.clock + DEBOUNCE_MS ]
    IN  IF q = <<>> \/ q = b.lastSearchQuery
        THEN [b EXCEPT !.query = query, !.changedAt = b.clock,
                       !.timers = cleanedUp(b), !.cleanup = NULL]
        ELSE [b EXCEPT !.query = query, !.changedAt = b.clock,
                       !.timers = cleanedUp(b) \cup { timer },
                       !.cleanup = [ timer |-> timer ]]

\* a call of the onSearch prop, as the component makes it
Dispatched(b, q, by) ==
    [ q |-> q, by |-> by, raw |-> b.query, waited |-> b.clock - b.changedAt,
      before |-> b.lastSearchQuery,
      prior |-> IF b.sent = NULL THEN <<>> ELSE b.sent.q ]

BarOnly == UNCHANGED <<ZDICT_DATA, ZDICT_LOADED, MEANING_CACHE, lsMeaning, cnchar, ret,
                       ZDICT_MORE, lsZdict, now, loads, log, app, speech>>

\* SearchBar.tsx:39, 58: the input changes or a hot search is clicked; a
\* setQuery of the value the state holds renders nothing
Change(query) ==
    /\ query # bar.query
    /\ bar' = setQuery(bar, query)
    /\ BarOnly

\* SearchBar.tsx:18-21: the callback of a timer whose delay has passed
DebounceFires(timer) ==
    /\ timer \in bar.timers
    /\ bar.clock >= timer.due
    /\ bar' = [bar EXCEPT !.sent = Dispatched(bar, timer.q, "debounce"),
                          !.lastSearchQuery = timer.q,
                          !.timers = @ \ { timer }]
    /\ BarOnly

\* SearchBar.tsx:26-31
HandleSubmit ==
    /\ bar' = IF trim(bar.query) # <<>>
              THEN [bar EXCEPT !.sent = Dispatched(bar, trimmedQuery(bar.query), "submit")]
              ELSE bar
    /\ BarOnly

\* time passes
Pass ==
    /\ bar.clock + StepMs <= MaxClock
    /\ bar' = [bar EXCEPT !.clock = @ + StepMs]
    /\ BarOnly

InitBar ==
    /\ now = Today
    /\ Mounted
    /\ ZDICT_LOADED = FALSE
    /\ ZDICT_DATA = <<>>
    /\ lsMeaning = NoItem
    /\ MEANING_CACHE = loadCachedMeanings(NoItem)
    /\ cnchar = [mode |-> "array", throws |-> {}]
    /\ ret = [op |-> "none"]
    /\ ZDICT_MORE = 0
    /\ lsZdict = NoItem
    /\ loads = NoLoads
    /\ log = NoLog

NextBar ==
    \/ \E query \in Queries : Change(query)
    \/ \E timer \in bar.timers : DebounceFires(timer)
    \/ HandleSubmit
    \/ Pass

SpecBar == InitBar /\ [][NextBar]_vars

(***************************************************************************)
(* Properties                                                              *)
(***************************************************************************)
SearchReturned == ret.op = "search" /\ ret.res.status = "ok"

\* the keyword holds no CJK character and is not blank
PinyinKeyword(keyword) ==
    /\ \E i \in 1..Len(keyword) : keyword[i] \notin {32, 10}
    /\ \A i \in 1..Len(keyword) : keyword[i] < 19968 \/ keyword[i] > 40869

PinyinSearchReturned == SearchReturned /\ PinyinKeyword(ret.arg)

LiteralKeyword(keyword) ==
    \E i \in 1..Len(keyword) : keyword[i] >= 19968 /\ keyword[i] <= 40869

LiteralChars(keyword) ==
    { <<keyword[i]>> : i \in { k \in 1..Len(keyword) :
                                 keyword[k] >= 19968 /\ keyword[k] <= 40869 } }

\* the order of strings: unit by unit, a proper prefix first
RECURSIVE StrLess(_, _)
StrLess(a, b) ==
    IF b = <<>> THEN FALSE
    ELSE IF a = <<>> THEN TRUE
    ELSE IF Head(a) # Head(b) THEN Head(a) < Head(b)
    ELSE StrLess(Tail(a), Tail(b))

ProperPrefix(a, b) == Len(a) < Len(b) /\ SubSeq(b, 1, Len(a)) = a

Toneless(r) == removeTone(r.pinyin)

InOrder(a, b) ==
    \/ StrLess(Toneless(a), Toneless(b))
    \/ /\ Toneless(a) = Toneless(b)
       /\ getFrequencySort(a.char) <= getFrequencySort(b.char)

Ordered(out) == \A i \in 1..(Len(out) - 1) : InOrder(out[i], out[i + 1])

\* C1: a list returned by searchCharactersByPinyin holds no two entries with
\* the same composite key char + "_" + pinyin.
C1_NoDuplicateKeys ==
    SearchReturned =>
        \A i, j \in 1..Len(ret.res.out) :
            i # j => ret.res.out[i].char \o <<95>> \o ret.res.out[i].pinyin
                     # ret.res.out[j].char \o <<95>> \o ret.res.out[j].pinyin

\* C1 witness: the search for "an" returned a dictionary result of strategy 1,
\* which the scan of the shortened prefix "a" found again and addResult refused.
C1_Witness ==
    /\ SearchReturned
    /\ ret.arg = <<97, 110>>
    /\ \E i \in 1..Len(ret.res.out) : ret.res.out[i].src = "zdict"
    /\ Len(ret.res.out) < RETRY_BELOW

\* C2 as stated: every returned list, the literal-character lists too, is in
\* the order of (tone-stripped pinyin, frequency rank).
C2_EveryListOrdered == SearchReturned => Ordered(ret.res.out)

\* C2 amended: every list returned for a pinyin keyword (no CJK character) is in
\* the order of (tone-stripped pinyin, frequency rank); the list of a keyword
\* with literal characters keeps the order of the characters in the keyword.
C2_PinyinListOrdered == PinyinSearchReturned => Ordered(ret.res.out)

\* C2 witness: the dictionary lists U+5B89 (rank 3) before U+6848 (rank 2), both
\* read "an", and the search for "an" returned them in the order of the ranks.
C2_Witness ==
    /\ PinyinSearchReturned
    /\ ret.arg = <<97, 110>>
    /\ ZDICT_LOADED
    /\ Len(ZDICT_DATA) = 2
    /\ ZDICT_DATA[1].key = c_an1
    /\ ZDICT_DATA[2].key = c_an4
    /\ Len(ret.res.out) >= 2
    /\ ret.res.out[1].char = c_an4
    /\ ret.res.out[2].char = c_an1

FromRetry(r) == r.src \in {"zdictRetry", "cncharRetry"}

ShortenedKeyword(keyword) ==
    SubSeq(removeTone(keyword), 1, Len(removeTone(keyword)) - 1)

\* C3 as stated: for a pinyin keyword every returned result, from the dictionary
\* scan or from the library, has a tone-stripped pronunciation that starts with
\* the tone-stripped keyword, or with the keyword minus its last character when
\* the shortened-prefix retry admitted it.
C3_EveryResultHasPrefix ==
    PinyinSearchReturned =>
        \A i \in 1..Len(ret.res.out) :
            IF FromRetry(ret.res.out[i])
            THEN StartsWith(Toneless(ret.res.out[i]), ShortenedKeyword(ret.arg))
            ELSE StartsWith(Toneless(ret.res.out[i]), removeTone(ret.arg))

\* C3 amended: the prefix-match invariant holds of the results the dictionary
\* scan admitted (against the keyword in strategy 1, against the keyword minus
\* its last character in the retry); a library result carries all the readings
\* of its character and need not start with the keyword.
C3_DictionaryResultHasPrefix ==
    PinyinSearchReturned =>
        \A i \in 1..Len(ret.res.out) :
            /\ ret.res.out[i].src = "zdict"
                  => StartsWith(Toneless(ret.res.out[i]), removeTone(ret.arg))
            /\ ret.res.out[i].src = "zdictRetry"
                  => StartsWith(Toneless(ret.res.out[i]), ShortenedKeyword(ret.arg))

\* C3 witness: a search whose list holds a result of the scan for the keyword
\* and a result of the scan for the shortened prefix.
C3_Witness ==
    /\ PinyinSearchReturned
    /\ \E i \in 1..Len(ret.res.out) : ret.res.out[i].src = "zdict"
    /\ \E i \in 1..Len(ret.res.out) : ret.res.out[i].src = "zdictRetry"

\* C4: for a keyword with a literal CJK character every returned result is one
\* of the keyword's literal characters, and neither the dictionary scan nor
\* spellToWord nor the retry took part.
C4_LiteralModeOnly ==
    (SearchReturned /\ LiteralKeyword(ret.arg)) =>
        /\ \A i \in 1..Len(ret.res.out) :
              /\ ret.res.out[i].char \in LiteralChars(ret.arg)
              /\ ret.res.out[i].src = "literal"
        /\ ret.res.calls \cap {"searchFromZdict", "spellToWord"} = {}

\* C4 witness: the keyword "a" + U+6848 was searched while the loaded
\* dictionary holds U+5B89, which the retry with prefix "a" would match.
C4_Witness ==
    /\ SearchReturned
    /\ ret.arg = <<97>> \o c_an4
    /\ ZDICT_LOADED
    /\ HasKey(ZDICT_DATA, c_an1)
    /\ Len(ret.res.out) = 1

\* C5: a keyword with literal characters yields exactly one result for each
\* distinct CJK character of it, whatever the dictionary holds and whether or
\* not it is loaded.
C5_OnePerLiteralChar ==
    (ret.op = "search" /\ LiteralKeyword(ret.arg)) =>
        /\ ret.res.status = "ok"
        /\ Len(ret.res.out) = Cardinality(LiteralChars(ret.arg))
        /\ \A c \in LiteralChars(ret.arg) :
              Cardinality({ i \in 1..Len(ret.res.out) : ret.res.out[i].char = c }) = 1

\* C5 witness: two distinct literal characters searched with no dictionary.
C5_Witness ==
    /\ SearchReturned
    /\ ret.arg = c_han \o c_an1
    /\ ~ZDICT_LOADED
    /\ Len(ret.res.out) = 2

\* C6: in the list of a pinyin keyword, a result whose tone-stripped
\* pronunciation is a proper prefix of another's comes before it.
C6_PrefixComesFirst ==
    PinyinSearchReturned =>
        \A i, j \in 1..Len(ret.res.out) :
            ProperPrefix(Toneless(ret.res.out[i]), Toneless(ret.res.out[j])) => i < j

\* C6 witness: the dictionary lists U+6602 (ang) before U+5B89 (an), and the
\* search for "an" returned U+5B89 before U+6602.
C6_Witness ==
    /\ PinyinSearchReturned
    /\ ret.arg = <<97, 110>>
    /\ ZDICT_LOADED
    /\ Len(ZDICT_DATA) = 2
    /\ ZDICT_DATA[1].key = c_ang
    /\ ZDICT_DATA[2].key = c_an1
    /\ \E i, j \in 1..Len(ret.res.out) :
          i < j /\ ret.res.out[i].char = c_an1 /\ ret.res.out[j].char = c_ang

\* C7: an empty or whitespace-only keyword returns the empty list, and the call
\* invoked no dictionary scan, no library call and no cache read.
C7_BlankKeywordDoesNothing ==
    (ret.op = "search" /\ \A i \in 1..Len(ret.arg) : ret.arg[i] \in {32, 10}) =>
        /\ ret.res.status = "ok"
        /\ ret.res.out = <<>>
        /\ ret.res.calls = {}

\* C7 witness: " " was searched with a loaded, non-empty dictionary.
C7_Witness ==
    /\ ret.op = "search"
    /\ ret.arg = <<32>>
    /\ ZDICT_LOADED
    /\ Len(ZDICT_DATA) > 0
    /\ ret.res.out = <<>>

DetailsReturned == ret.op = "details"

DetailsOfOneChar == DetailsReturned /\ Len(ret.arg) = 1

WellFormed(info) ==
    /\ DOMAIN info = {"character", "pinyin", "meaning", "radical", "strokes", "examples"}
    /\ info.pinyin.kind \in {"str", "arr"}
    /\ info.strokes \in Nat
    /\ info.examples \in Seq(Seq(Nat))
    /\ Len(info.examples) <= EXAMPLES_SHOWN

\* none of the fields spell and stroke fill is at its default
NotTheFallback(info) == info.pinyin # Str(<<>>) /\ info.strokes # 0

\* C8 as stated: null exactly for an input not one character long; for one
\* character a well-formed record with the input as character, which is the
\* safe default whenever any library call (spell, stroke, words, idiom) throws,
\* while a throw of the radical lookup alone only empties the radical.
C8_AnyLibraryThrowGivesDefault ==
    DetailsReturned =>
        /\ (ret.res = NULL) <=> (Len(ret.arg) # 1)
        /\ Len(ret.arg) = 1 =>
              /\ WellFormed(ret.res)
              /\ ret.res.character = ret.arg
              /\ cnchar.throws \cap {"spell", "stroke", "words"} # {}
                    => ret.res = safeDefault(ret.arg)
              /\ cnchar.throws = {"radical"}
                    => ret.res.radical = <<>> /\ NotTheFallback(ret.res)

\* C8 amended: getCharacterDetails never fails; it returns null exactly when the
\* input is not one character long, and for one character a well-formed record
\* with the input as character.  The record is the safe default when spell or
\* stroke throws.  A throw of the radical lookup alone only empties the
\* radical, and a throw of words or idiom alone only empties the examples the
\* library would have supplied; the other fields are filled as usual.
C8_SpellOrStrokeThrowGivesDefault ==
    DetailsReturned =>
        /\ (ret.res = NULL) <=> (Len(ret.arg) # 1)
        /\ Len(ret.arg) = 1 =>
              /\ WellFormed(ret.res)
              /\ ret.res.character = ret.arg
              /\ cnchar.throws \cap {"spell", "stroke"} # {}
                    => ret.res = safeDefault(ret.arg)
              /\ cnchar.throws = {"radical"}
                    => ret.res.radical = <<>> /\ NotTheFallback(ret.res)
              /\ cnchar.throws = {"words"}
                    => /\ NotTheFallback(ret.res)
                       /\ ret.res.radical # <<>>
                       /\ ret.res.examples = getCharacterMeaning(ret.arg).examples
              /\ cnchar.throws = {}
                    => NotTheFallback(ret.res) /\ ret.res.radical # <<>>

\* C8 witness: the radical lookup threw during the details of a character of
\* the dictionary, and the record came back with its meaning and no radical.
C8_Witness ==
    /\ DetailsOfOneChar
    /\ cnchar.throws = {"radical"}
    /\ ZDICT_LOADED
    /\ HasKey(ZDICT_DATA, ret.arg)
    /\ ret.res.radical = <<>>
    /\ ret.res.meaning # PLACEHOLDER_MEANING

\* C9: after getCharacterDetails(char) has returned and written the cache, a
\* second call with the same character returns an equal value.
C9_SecondCallReturnsEqual ==
    DetailsReturned => getCharacterDetails(ret.arg) = ret.res

\* C9 witness: the call found the character in the dictionary while the cache
\* held another meaning for it, and overwrote the cached meaning.
C9_Witness ==
    /\ DetailsOfOneChar
    /\ ZDICT_LOADED
    /\ HasKey(ZDICT_DATA, ret.arg)
    /\ lsMeaning.item
    /\ HasKey(lsMeaning.data, ret.arg)
    /\ HasKey(MEANING_CACHE, ret.arg)
    /\ Get(MEANING_CACHE, ret.arg).meaning = ret.res.meaning
    /\ ret.res.meaning # <<110, 44, 111>>
    /\ ret.arg = c_han

DetailsFromDictionary ==
    DetailsOfOneChar /\ ZDICT_LOADED /\ HasKey(ZDICT_DATA, ret.arg)

\* definitions joined by the full-width semicolon
RECURSIVE Definitions(_)
Definitions(defs) ==
    IF defs = <<>> THEN <<>>
    ELSE IF Len(defs) = 1 THEN defs[1]
    ELSE defs[1] \o <<65307>> \o Definitions(Tail(defs))

\* "[pronunciation] definitions" for each pronunciation, a blank line between
RECURSIVE Blocks(_)
Blocks(entry) ==
    IF entry = <<>> THEN <<>>
    ELSE <<91>> \o entry[1].key \o <<93, 32>> \o Definitions(entry[1].val)
         \o (IF Len(entry) = 1 THEN <<>> ELSE <<10, 10>> \o Blocks(Tail(entry)))

Contains(s, sub) ==
    \E i \in 0..(Len(s) - Len(sub)) : SubSeq(s, i + 1, i + Len(sub)) = sub

PolyphonicMeaning ==
    (DetailsFromDictionary /\ Len(Get(ZDICT_DATA, ret.arg)) >= 2) =>
        /\ ret.res.meaning = Blocks(Get(ZDICT_DATA, ret.arg))
        /\ \A i \in 1..Len(Get(ZDICT_DATA, ret.arg)) :
              Contains(ret.res.meaning,
                       <<91>> \o Get(ZDICT_DATA, ret.arg)[i].key \o <<93, 32>>
                       \o Definitions(Get(ZDICT_DATA, ret.arg)[i].val))

\* C10 as stated: a polyphonic entry gives one "[pronunciation] definitions"
\* block per pronunciation separated by blank lines; an entry with exactly one
\* pronunciation gives its definitions joined by the separator.
C10_SinglePronunciationJoined ==
    /\ PolyphonicMeaning
    /\ (DetailsFromDictionary /\ Len(Get(ZDICT_DATA, ret.arg)) = 1) =>
          ret.res.meaning = Definitions(Get(ZDICT_DATA, ret.arg)[1].val)

\* C10 amended: a polyphonic entry gives one "[pronunciation] definitions" block
\* per pronunciation separated by blank lines; an entry with exactly one
\* pronunciation gives its definitions joined by the separator, with no
\* bracketed block, when it has at least one definition, and the placeholder
\* meaning when its list of definitions is empty.
C10_SinglePronunciationJoinedOrPlaceholder ==
    /\ PolyphonicMeaning
    /\ (DetailsFromDictionary /\ Len(Get(ZDICT_DATA, ret.arg)) = 1) =>
          IF Len(Get(ZDICT_DATA, ret.arg)[1].val) > 0
          THEN /\ ret.res.meaning = Definitions(Get(ZDICT_DATA, ret.arg)[1].val)
               /\ Head(ret.res.meaning) # 91
          ELSE ret.res.meaning = PLACEHOLDER_MEANING

\* C10 witness: the details of a character whose entry has two pronunciations,
\* the meaning holding the blank line between their blocks.
C10_Witness ==
    /\ DetailsFromDictionary
    /\ Len(Get(ZDICT_DATA, ret.arg)) = 2
    /\ Contains(ret.res.meaning, <<10, 10, 91>>)

\* C11 as stated: whatever library call throws, a search (and
\* getRandomInitialResults) completes with a list and never rejects.
C11_SearchNeverRejects ==
    ret.op \in {"search", "random"} => ret.res.status = "ok"

\* the part of C11 that holds: a search for a keyword without CJK character
\* completes whatever library call throws
C11_PinyinSearchCompletes ==
    (ret.op = "search" /\ ~LiteralKeyword(ret.arg)) => ret.res.status = "ok"

RandomReturned == ret.op = "random" /\ ret.res.status = "ok"

\* what the random-pinyin search gave (the call changes no state)
RandomFound == searchCharactersByPinyin(ret.arg).out

\* the entries appended to a search result of the given length
Backfilled(found) == SubSeq(ret.res.out, Len(found) + 1, Len(ret.res.out))

\* C17: getRandomInitialResults returns at least 12 entries; when the search
\* gave fewer than 12 the list is the search's list followed by characters of
\* the fixed list up to exactly 12, none of them a character already in the
\* list.
C17_BackfilledToTwelve ==
    ret.op = "random" =>
        /\ ret.res.status = "ok"
        /\ Len(ret.res.out) >= INITIAL_RESULTS
        /\ \A found \in {RandomFound} : \A filled \in {Backfilled(found)} :
              Len(found) < INITIAL_RESULTS =>
                 /\ Len(ret.res.out) = INITIAL_RESULTS
                 /\ SubSeq(ret.res.out, 1, Len(found)) = found
                 /\ \A i \in 1..Len(filled) :
                       /\ \E k \in 1..Len(commonChars) : filled[i].char = commonChars[k]
                       /\ filled[i].brief = PLACEHOLDER_BRIEF
                       /\ \A j \in 1..Len(found) : found[j].char # filled[i].char
                       /\ \A j \in 1..Len(filled) :
                             j # i => filled[j].char # filled[i].char

\* C17 witness: the search for "han" found U+6C49, which the fixed list holds
\* too, and the list was filled to twelve with U+6C49 in it once.
C17_Witness ==
    /\ RandomReturned
    /\ ret.arg = <<104, 97, 110>>
    /\ ret.shuffled = commonChars
    /\ \E found \in {RandomFound} : Len(found) = 1 /\ found[1].char = c_han
    /\ Len(ret.res.out) = INITIAL_RESULTS
    /\ Cardinality({ i \in 1..Len(ret.res.out) : ret.res.out[i].char = c_han }) = 1

\* a step that is a call of loadZdictData, up to its first await or its return
LoadCalled == log' # log /\ log'.last.event \notin {"fetched", "failed"}

StoredIsParsed == lsZdict.item /\ lsZdict.json

\* C12: a stored snapshot whose version is not the current one, or whose age
\* has reached CACHE_EXPIRY, is not installed by the call that reads it, which
\* goes on to fetch; the data of such an entry is never the snapshot.
C12_StaleEntryRefetched ==
    /\ [][(LoadCalled /\ ~ZDICT_LOADED /\ StoredIsParsed
              /\ (lsZdict.version # CACHE_VERSION
                  \/ now - lsZdict.timestamp >= CACHE_EXPIRY))
          => /\ loads'[log'.last.caller].pc = "fetch"
             /\ UNCHANGED <<ZDICT_DATA, ZDICT_MORE, ZDICT_LOADED>>]_vars
    /\ [](ZDICT_DATA # StalePayload.data)

\* C12 witness: a call read an entry of the current version that is exactly
\* CACHE_EXPIRY old, and awaits its fetch with nothing installed.
C12_Witness ==
    /\ StoredIsParsed
    /\ lsZdict.version = CACHE_VERSION
    /\ now - lsZdict.timestamp = CACHE_EXPIRY
    /\ log.last.event = "stale"
    /\ loads[log.last.caller].pc = "fetch"
    /\ ~ZDICT_LOADED

\* C13 as stated: an unparsable or wrongly-shaped stored entry has been
\* cleared from storage once it was read, the in-memory meaning cache is a
\* usable map, and no search fails.
C13_CorruptEntriesClearedAndHarmless ==
    /\ ~(lsMeaning.item /\ ~lsMeaning.json)
    /\ ~cacheIsNull
    /\ ret.op = "search" => ret.res.status = "ok"

\* the part of C13 that holds: the call of loadZdictData that reads an
\* unparsable or too small snapshot entry removes it and goes on to fetch
C13_CorruptSnapshotCleared ==
    [][(LoadCalled /\ ~ZDICT_LOADED /\ lsZdict.item
           /\ (~lsZdict.json \/ (isCurrent(lsZdict) /\ keyCount(lsZdict.data) <= MIN_KEYS)))
       => /\ lsZdict' = NoItem
          /\ loads'[log'.last.caller].pc = "fetch"
          /\ UNCHANGED <<ZDICT_DATA, ZDICT_MORE, ZDICT_LOADED>>]_vars

\* C14 as stated: a call of loadZdictData made while another call awaits its
\* fetch starts no second fetch, so two calls never await a fetch together.
C14_OneFetchInFlight ==
    ~(InFlight("initializeDatabaseExpansion") /\ InFlight("expandMeaningCache"))

\* C15: a call of loadZdictData made when the flag is set returns at once,
\* touching neither the stored entry nor the snapshot and starting no fetch;
\* as long as no two calls overlapped, the snapshot was installed at most once.
C15_LoadedAtMostOnce ==
    /\ [][(LoadCalled /\ ZDICT_LOADED)
          => /\ log'.last.event = "returned"
             /\ loads'[log'.last.caller] = Done
             /\ UNCHANGED <<ZDICT_DATA, ZDICT_MORE, ZDICT_LOADED, lsZdict>>]_vars
    /\ [](~log.overlapped => log.installs <= 1)

\* C15 witness: expandMeaningCache's call installed the snapshot, then
\* initializeDatabaseExpansion's call found the flag set and returned.
C15_Witness ==
    /\ ZDICT_LOADED
    /\ log.installs = 1
    /\ ~log.overlapped
    /\ log.last = [caller |-> "initializeDatabaseExpansion", event |-> "returned"]
    /\ lsZdict.item

\* C16 as stated: no step changes the value stored under a key MEANING_CACHE
\* or the snapshot already holds.
C16_WritesAppendOnly ==
    [][/\ ~cacheIsNull =>
            \A i \in 1..Len(MEANING_CACHE) :
                /\ HasKey(MEANING_CACHE', MEANING_CACHE[i].key)
                /\ Get(MEANING_CACHE', MEANING_CACHE[i].key) = MEANING_CACHE[i].val
       /\ \A i \in 1..Len(ZDICT_DATA) :
                /\ HasKey(ZDICT_DATA', ZDICT_DATA[i].key)
                /\ Get(ZDICT_DATA', ZDICT_DATA[i].key) = ZDICT_DATA[i].val]_vars

\* the characters the library lists under a toneless pinyin
GivenByLibrary(pinyin) ==
    { LibChars[i] : i \in { k \in 1..Len(LibChars) :
          \E j \in 1..Len(LibReadings(LibChars[k])) :
              removeTone(LibReadings(LibChars[k])[j]) = pinyin } }

\* C18 as stated: with no snapshot loaded a pinyin search completes and returns
\* each character the library gives for the query, once; a detail lookup
\* returns the cached meaning or the placeholder.
C18_LibraryCharactersReturned ==
    /\ (ret.op = "search" /\ ~ZDICT_LOADED /\ PinyinKeyword(ret.arg)) =>
          /\ ret.res.status = "ok"
          /\ \A c \in GivenByLibrary(normalizePinyin(ret.arg)) :
                Cardinality({ i \in 1..Len(ret.res.out) : ret.res.out[i].char = c }) = 1
    /\ (DetailsOfOneChar /\ ~ZDICT_LOADED) =>
          ret.res.meaning = IF HasKey(MEANING_CACHE, ret.arg)
                            THEN Get(MEANING_CACHE, ret.arg).meaning
                            ELSE PLACEHOLDER_MEANING

\* the part of C18 that holds: with no snapshot loaded a pinyin search
\* completes, every entry comes from the library, no character twice, and
\* the detail lookup returns the cached meaning or the placeholder
C18_DegradesWithoutFailing ==
    /\ (ret.op = "search" /\ ~ZDICT_LOADED /\ PinyinKeyword(ret.arg)) =>
          /\ ret.res.status = "ok"
          /\ \A i \in 1..Len(ret.res.out) :
                /\ ret.res.out[i].src \in {"cnchar", "cncharRetry"}
                /\ \A j \in 1..Len(ret.res.out) :
                      ret.res.out[i].char = ret.res.out[j].char => i = j
    /\ (DetailsOfOneChar /\ ~ZDICT_LOADED) =>
          ret.res.meaning = IF HasKey(MEANING_CACHE, ret.arg)
                            THEN Get(MEANING_CACHE, ret.arg).meaning
                            ELSE PLACEHOLDER_MEANING

\* C19: a search changes neither cache, neither stored entry nor the flag, and
\* repeated in the state it left returns the same list; MEANING_CACHE changes
\* only in a step of getCharacterDetails or expandMeaningCache, the snapshot
\* only in a step of loadZdictData.
C19_SearchMutatesNothing ==
    [][/\ (ret.op = "none" /\ ret'.op = "search") =>
           /\ UNCHANGED <<MEANING_CACHE, ZDICT_DATA, ZDICT_MORE, ZDICT_LOADED,
                          lsMeaning, lsZdict, cnchar>>
           /\ ret'.res = searchCharactersByPinyin(ret'.arg)
       /\ MEANING_CACHE' # MEANING_CACHE => ret'.op \in {"details", "expand"}
       /\ ZDICT_DATA' # ZDICT_DATA => log' # log]_vars

\* C19 witness: a search that scanned a loaded snapshot and read a non-empty
\* meaning cache has returned.
C19_Witness ==
    /\ SearchReturned
    /\ ZDICT_LOADED
    /\ ~cacheIsNull
    /\ Len(MEANING_CACHE) > 0
    /\ {"searchFromZdict", "MEANING_CACHE"} \subseteq ret.res.calls
    /\ Len(ret.res.out) > 0

\* what getMeaningFromZdict makes of an entry
DictionaryMeaning(entry) ==
    IF Len(entry) = 0 THEN PLACEHOLDER_MEANING
    ELSE IF Len(entry) > 1 THEN Blocks(entry)
    ELSE IF Len(entry[1].val) = 0 THEN PLACEHOLDER_MEANING
    ELSE Definitions(entry[1].val)

\* C20: the meaning getCharacterDetails returns is the dictionary's when the
\* snapshot is loaded and has the character, else the cached one when the
\* cache has the character, else the placeholder.
C20_MeaningResolutionOrder ==
    DetailsOfOneChar =>
        ret.res.meaning =
            IF ZDICT_LOADED /\ HasKey(ZDICT_DATA, ret.arg)
            THEN DictionaryMeaning(Get(ZDICT_DATA, ret.arg))
            ELSE IF HasKey(MEANING_CACHE, ret.arg)
            THEN Get(MEANING_CACHE, ret.arg).meaning
            ELSE PLACEHOLDER_MEANING

\* C20 witness: the loaded snapshot lacks the character, the cache has it,
\* and the cached meaning was returned.
C20_Witness ==
    /\ DetailsOfOneChar
    /\ ZDICT_LOADED
    /\ Len(ZDICT_DATA) > 0
    /\ ~HasKey(ZDICT_DATA, ret.arg)
    /\ HasKey(MEANING_CACHE, ret.arg)
    /\ ret.res.meaning = <<110, 44, 111>>

\* the accumulator before strategy 1 and after strategy 1, strategy 2, the
\* dictionary scan of the retry and the library lookup of the retry, for a
\* keyword without CJK character (a search changes no state, so the state
\* the search left is the state it ran in)
RetryRuns(normalizedPinyin, acc) ==
    Len(acc.results) < RETRY_BELOW /\ Len(normalizedPinyin) > 1

Stages(keyword) ==
    LET n  == normalizePinyin(keyword)
        a1 == strategy1(n, EmptyAcc)
        a2 == strategy2(n, a1)
        a3 == IF RetryRuns(n, a2) THEN retryZdict(shorterPrefixOf(n), a2) ELSE a2
        a4 == IF RetryRuns(n, a2) THEN retryCnchar(shorterPrefixOf(n), a3) ELSE a3
    IN  <<EmptyAcc, a1, a2, a3, a4>>

StageSrc == <<"zdict", "cnchar", "zdictRetry", "cncharRetry">>

IsPrefix(a, b) == Len(a) <= Len(b) /\ SubSeq(b, 1, Len(a)) = a

\* the entries b holds after the entries of its prefix a
Appended(a, b) == SubSeq(b, Len(a) + 1, Len(b))

SameEntries(a, b) ==
    /\ Len(a) = Len(b)
    /\ \A i \in 1..Len(a) : \E j \in 1..Len(b) : a[i] = b[j]

\* C21: the strategies run in the order dictionary scan, library lookup,
\* retry; each leaves the entries admitted before it as they are and in
\* place, and appends only entries whose key char_pinyin is new; the list
\* returned holds the entries so merged.
C21_FirstWriterWins ==
    PinyinSearchReturned =>
        \A st \in {Stages(ret.arg)} :
            /\ \A k \in 1..4 :
                  /\ IsPrefix(st[k].results, st[k + 1].results)
                  /\ \A new \in {Appended(st[k].results, st[k + 1].results)} :
                        \A i \in 1..Len(new) :
                            /\ resultKey(new[i]) \notin st[k].foundKeys
                            /\ new[i].src = StageSrc[k]
                            /\ \A j \in 1..Len(new) :
                                  resultKey(new[j]) = resultKey(new[i]) => j = i
            /\ SameEntries(ret.res.out, validResults(st[5].results))

\* C21 witness: the search for "ang" took U+6602 with one pronunciation from
\* the dictionary scan, and the dictionary scan of the retry ("an") added
\* the other pronunciation of the same character.
C21_Witness ==
    /\ PinyinSearchReturned
    /\ ret.arg = <<97, 110, 103>>
    /\ \E i, j \in 1..Len(ret.res.out) :
          /\ ret.res.out[i].src = "zdict"
          /\ ret.res.out[j].src = "zdictRetry"
          /\ ret.res.out[i].char = ret.res.out[j].char
          /\ ret.res.out[i].pinyin # ret.res.out[j].pinyin

\* the characters of a list of results
CharsOf(results) == { results[i].char : i \in 1..Len(results) }

\* C22: the library lookup of strategy 2 and of the retry appends no entry
\* for a character the running result set holds already, under whatever
\* pronunciation, and none twice.
C22_LibrarySkipsPresentCharacters ==
    PinyinSearchReturned =>
        \A st \in {Stages(ret.arg)} :
            \A k \in {2, 4} :
                \A new \in {Appended(st[k].results, st[k + 1].results)} :
                    \A i \in 1..Len(new) :
                        /\ new[i].src \in {"cnchar", "cncharRetry"}
                        /\ new[i].char \notin CharsOf(st[k].results)
                        /\ \A j \in 1..Len(new) : new[j].char = new[i].char => j = i

\* C22 witness: the search for "an" took U+5382 from the dictionary as "an";
\* the library gives U+5382 for "an" and knows its pronunciation "chang"
\* too, which no entry of the list carries.
C22_Witness ==
    /\ PinyinSearchReturned
    /\ ret.arg = <<97, 110>>
    /\ cnchar.mode = "array"
    /\ \E i \in 1..Len(spellToWord(<<97, 110>>).v) : spellToWord(<<97, 110>>).v[i] = c_poly
    /\ \E i \in 1..Len(ret.res.out) :
          ret.res.out[i].char = c_poly /\ ret.res.out[i].src = "zdict"
    /\ \A i \in 1..Len(ret.res.out) :
          ret.res.out[i].char = c_poly =>
              /\ ret.res.out[i].src \in {"zdict", "zdictRetry"}
              /\ ~Contains(ret.res.out[i].pinyin, p_chang)
    /\ \E i \in 1..Len(ret.res.out) : ret.res.out[i].src = "cnchar"

\* the characters strategy 2 gets when it asks the library for a spelling:
\* those the library lists under it, as an array or as a string of one
\* character (a longer string is one candidate, which the filter drops)
LibraryAnswer(pinyin) ==
    IF cnchar.mode = "array" \/ Cardinality(GivenByLibrary(pinyin)) = 1
    THEN GivenByLibrary(pinyin)
    ELSE {}

CharsFrom(out, srcs) == { out[i].char : i \in { k \in 1..Len(out) : out[k].src \in srcs } }

\* C23 as stated: the entries of strategy 2 are the characters the library
\* lists under the keyword as the caller passed it.
C23_LibraryAskedKeywordAsPassed ==
    PinyinSearchReturned =>
        CharsFrom(ret.res.out, {"cnchar"})
            = LibraryAnswer(ret.arg) \ CharsFrom(ret.res.out, {"zdict"})

\* C23 as the code has it: the entries of strategy 2 are the characters the
\* library lists under the normalized query (lower-cased, the digits 1-5
\* removed, tone marks kept), less those the dictionary scan admitted.
C23_LibraryAskedNormalizedQuery ==
    PinyinSearchReturned =>
        CharsFrom(ret.res.out, {"cnchar"})
            = LibraryAnswer(normalizePinyin(ret.arg)) \ CharsFrom(ret.res.out, {"zdict"})

\* C23 witness: the search for "An1" returned the characters the library
\* lists under "an".
C23_Witness ==
    /\ PinyinSearchReturned
    /\ ret.arg = <<65, 110, 49>>
    /\ normalizePinyin(ret.arg) = <<97, 110>>
    /\ CharsFrom(ret.res.out, {"cnchar"}) # {}
    /\ CharsFrom(ret.res.out, {"cnchar"}) \subseteq GivenByLibrary(<<97, 110>>)
    /\ GivenByLibrary(ret.arg) = {}

\* C24: entries of the retry are in the list only when strategies 1 and 2
\* admitted fewer than 10 entries and the normalized query has more than one
\* character; then the list holds what the dictionary scan and the library
\* lookup of the query minus its last character add, and nothing of a
\* prefix shorter than that.
C24_RetryOnceBelowTen ==
    PinyinSearchReturned =>
        \A n \in {normalizePinyin(ret.arg)} : \A st \in {Stages(ret.arg)} :
            /\ SameEntries(ret.res.out, validResults(st[5].results))
            /\ (Len(st[3].results) >= 10 \/ Len(n) <= 1) =>
                  /\ st[5].results = st[3].results
                  /\ CharsFrom(ret.res.out, {"zdictRetry", "cncharRetry"}) = {}
            /\ (Len(st[3].results) < 10 /\ Len(n) > 1) =>
                  \A short \in {SubSeq(n, 1, Len(n) - 1)} :
                      /\ \A r \in {searchFromZdict(short, "zdictRetry")} :
                            \A i \in 1..Len(r) :
                                validChar(r[i].char) =>
                                    \E j \in 1..Len(ret.res.out) :
                                        /\ ret.res.out[j].char = r[i].char
                                        /\ ret.res.out[j].pinyin = r[i].pinyin
                      /\ \A j \in 1..Len(ret.res.out) :
                            /\ ret.res.out[j].src = "zdictRetry" =>
                                  StartsWith(removeTone(ret.res.out[j].pinyin), short)
                            /\ ret.res.out[j].src = "cncharRetry" =>
                                  ret.res.out[j].char \in GivenByLibrary(short)
                      /\ LibraryAnswer(short) \subseteq CharsOf(ret.res.out)

\* C24 witness: strategies 1 and 2 admitted nine entries for "an", the
\* retry scanned "a" and added the entry only "a" matches.
C24_Witness ==
    /\ PinyinSearchReturned
    /\ ret.arg = <<97, 110>>
    /\ Len(Stages(ret.arg)[3].results) = 9
    /\ \E j \in 1..Len(ret.res.out) :
          /\ ret.res.out[j].src = "zdictRetry"
          /\ ret.res.out[j].pinyin = p_ai4

\* the threshold's other side: strategies 1 and 2 admitted ten entries for
\* "an" and the retry did not run
C24_NoRetryAtTen ==
    /\ PinyinSearchReturned
    /\ ret.arg = <<97, 110>>
    /\ Len(Stages(ret.arg)[3].results) = 10
    /\ HasKey(ZDICT_DATA, c_an4)
    /\ CharsFrom(ret.res.out, {"zdictRetry", "cncharRetry"}) = {}

LibrarySrc == {"cnchar", "cncharRetry"}
DictionarySrc == {"zdict", "zdictRetry"}

\* C27 as stated: no character of a returned list has an entry from the
\* library and an entry from the dictionary scan.
C27_SingleSourcePerCharacter ==
    PinyinSearchReturned =>
        CharsFrom(ret.res.out, LibrarySrc) \cap CharsFrom(ret.res.out, DictionarySrc) = {}

\* C27 as the code has it: a character has at most one entry from the
\* library, and an entry from the library next to one from the dictionary
\* only when strategy 2 admitted the first and the dictionary scan of the
\* retry, which tests the key and not the character, then added the second.
C27_LibraryNeverAfterDictionary ==
    PinyinSearchReturned =>
        \A i, j \in 1..Len(ret.res.out) :
            (ret.res.out[i].char = ret.res.out[j].char /\ ret.res.out[i].src \in LibrarySrc) =>
                \/ i = j
                \/ ret.res.out[i].src = "cnchar" /\ ret.res.out[j].src = "zdictRetry"

\* C27 witness: the search for "an" took U+6848 from the library in
\* strategy 2, and the retry's scan of "a" added the dictionary's entry of
\* U+6848 under "ai".
C27_Witness ==
    /\ PinyinSearchReturned
    /\ ret.arg = <<97, 110>>
    /\ \E i, j \in 1..Len(ret.res.out) :
          /\ ret.res.out[i].char = c_an4 /\ ret.res.out[i].src = "cnchar"
          /\ ret.res.out[j].char = c_an4 /\ ret.res.out[j].src = "zdictRetry"
          /\ ret.res.out[j].pinyin = p_ai4

\* C25 as stated: one invocation of searchFromZdict returns at most 500
\* results, and a search's list has at most 1000 entries.
C25_ScanReturnsAtMostCap ==
    /\ ret.op = "scan" => Len(ret.res.out) <= 500
    /\ ret.op = "search" /\ ret.res.status = "ok" => Len(ret.res.out) <= 1000

\* the part of C25 that holds: the scan stops after the character with
\* which the count reaches 500, so it returns fewer than 500 results plus
\* those of one character
C25_ScanStopsAtCap ==
    ret.op = "scan" =>
        \A i \in 1..Len(ret.res.out) :
            i > 500 => ret.res.out[i].char = ret.res.out[500].char

\* C26 as stated: whenever the flag is set the snapshot has more than 100
\* keys.
C26_LoadedImpliesValidated ==
    ZDICT_LOADED => Len(ZDICT_DATA) + ZDICT_MORE > 100

\* the part of C26 that holds: a snapshot restored from the stored entry has
\* more than 100 keys, and a payload that fails the test is never stored
C26_RestoredOrStoredIsValidated ==
    /\ [][(LoadCalled /\ ~ZDICT_LOADED /\ ZDICT_LOADED')
             => Len(ZDICT_DATA') + ZDICT_MORE' > 100]_vars
    /\ [][(lsZdict' # lsZdict /\ lsZdict'.item) => keyCount(lsZdict'.data) > 100]_vars


\* a getCharacterDetails call has not settled
DetailInFlight == app.details # <<>>

\* C28: whenever no detail load is in flight and detail is non-null,
\* detail.character equals selectedChar, and loadingDetail is false only when
\* no detail load is in flight.  The handler keeps no mark of the call a
\* completion belongs to, so the first of two overlapping loads to settle
\* clears loadingDetail and the last to settle leaves its record in detail.
C28_DetailMatchesSelection ==
    /\ (~DetailInFlight /\ app.detail # NULL) => app.detail.character = app.selectedChar
    /\ ~app.loadingDetail => ~DetailInFlight

\* the detail of an earlier selection is shown under a later one, at rest
C28_StaleDetailAtRest ==
    ~(~DetailInFlight /\ app.detail # NULL /\ app.detail.character # app.selectedChar)

\* what the handlers do keep: detailRef follows detail, and loadingDetail is
\* true only while a load is in flight
C28_RefFollowsDetail ==
    /\ app.detailRef = app.detail
    /\ app.loadingDetail => DetailInFlight

\* a playback between its setPlayingText and its own reset
InProgress(p) == p.pc = "speak" \/ (p.pc = "timer" /\ ~p.failed)

PlaybacksInProgress == { i \in DOMAIN speech.plays : InProgress(speech.plays[i]) }

\* C29: at most one playback is in progress, and while one is, playingText
\* is its text (so no handleSpeak call starts another and no timer or error
\* path of an earlier playback has cleared it).
C29_OnePlaybackAtATime ==
    /\ Cardinality(PlaybacksInProgress) <= 1
    /\ \A i \in PlaybacksInProgress : speech.playingText = Str(speech.plays[i].text)

\* the handler of App.tsx keeps it: its one reset per playback is the timer
\* of the resolved path or the catch of the rejected path, never both
C29_AppTsxOnePlayback ==
    speech.source = "App.tsx" =>
        /\ C29_OnePlaybackAtATime
        /\ Len(speech.timers) <= 1
        /\ speech.playingText = NULL <=> PlaybacksInProgress = {}

\* App.tsx has played a text to its reset and is playing the next
C29_AppTsxSecondPlayback ==
    ~(/\ speech.source = "App.tsx"
      /\ \E i \in DOMAIN speech.plays : speech.plays[i].pc = "over"
      /\ PlaybacksInProgress # {})

DebounceDispatched == bar.sent # NULL /\ bar.sent.by = "debounce"

\* C30: at most one debounce timer is pending and it belongs to the current
\* query text (it was set when the query last changed, for its trimmed,
\* lower-cased form); what the debounce hands to onSearch is non-empty, is
\* the trimmed, lower-cased form of a query that stayed unchanged for the
\* whole delay, and differs from what the debounce dispatched last.
C30_DebounceDispatchesSettledQuery ==
    /\ Cardinality(bar.timers) <= 1
    /\ \A timer \in bar.timers :
          /\ timer.q = trimmedQuery(bar.query)
          /\ timer.due = bar.changedAt + DEBOUNCE_MS
    /\ DebounceDispatched =>
          /\ bar.sent.q # <<>>
          /\ bar.sent.q = trimmedQuery(bar.sent.raw)
          /\ bar.sent.waited >= DEBOUNCE_MS
          /\ bar.sent.q # bar.sent.before

\* the debounce has dispatched a second query and a third is pending
C30_Witness ==
    /\ DebounceDispatched
    /\ bar.sent.before # <<>>
    /\ bar.timers # {}

\* handleSubmit neither clears the timer nor records what it dispatched: the
\* debounce then hands onSearch the query the submit has just handed it
C30_DebounceRepeatsSubmit ==
    ~(DebounceDispatched /\ bar.sent.prior = bar.sent.q /\ bar.sent.before # bar.sent.q)
====
